---- MODULE Spec2Model ----
(***************************************************************************)
(* rsspec: the runner (crates/rsspec/src/runner.rs) and the decorator      *)
(* primitives it uses (crates/rsspec/src/lib.rs), as a state machine.      *)
(*                                                                         *)
(* The runner is one sequential thread.  Its recursion (run_nodes ->       *)
(* run_node -> run_nodes ...) is the variable `stack`, the leaf being      *)
(* executed is `exec`, and every call of a user closure (hook, body, step, *)
(* cleanup) is one step whose outcome (return, panic) is chosen by \E.     *)
(***************************************************************************)
EXTENDS Integers, Sequences, FiniteSets, TLC

\* ------------------------------------------------------------------ bounds

\* How many deviations from the plain all-green run one behaviour may hold:
\* a flag set on a node, a configuration or environment setting, a closure
\* that panics, a closure that calls skip(), a body that takes time.
MaxDeviations == 3

\* The longest a body takes in one call, in the unit of timeout_ms.
MaxDuration == 2

\* The most terms of a label filter and the most labels of a leaf that a call
\* of labels_match_filter is given.
MaxTerms == 3

MaxLabels == 2

\* The most steps that the threads take in all besides starting and ending
\* the phases of run(): operations of the builder API, calls of defer_cleanup
\* and skip(), cases ended.
MaxOps == 5

\* The bits of a retry count: u32 is followed with WordBits bits, so that the
\* largest retry count is 2^WordBits - 1 and one more wraps to 0 as 2^32 does.
WordBits == 3

\* ------------------------------------------------------------- Option<T>

None == <<>>

Some(v) == <<v>>

IsSome(o) == o # <<>>

Unwrap(o) == o[1]

\* ----------------------------------------------------------------- strings
\* A string is a sequence of one-character strings.

Sep == <<" ", ">", " ">>

LowerChar(c) ==
    CASE c = "A" -> "a"
      [] c = "B" -> "b"
      [] c = "C" -> "c"
      [] c = "Y" -> "y"
      [] c = "T" -> "t"
      [] c = "R" -> "r"
      [] c = "U" -> "u"
      [] c = "E" -> "e"
      [] OTHER -> c

\* str::to_lowercase
ToLowercase(s) == [i \in 1..Len(s) |-> LowerChar(s[i])]

\* str::contains(&str): t occurs in s as a contiguous substring
Contains(s, t) ==
    \E i \in 0..(Len(s) - Len(t)) : SubSeq(s, i + 1, i + Len(t)) = t

\* [String]::join(sep)
RECURSIVE Join(_, _)
Join(parts, sep) ==
    IF parts = <<>> THEN <<>>
    ELSE IF Len(parts) = 1 THEN parts[1]
    ELSE parts[1] \o sep \o Join(Tail(parts), sep)

\* str::split(ch): the pieces between the occurrences of ch (always >= 1 piece)
RECURSIVE Split(_, _)
Split(s, ch) ==
    IF \A i \in 1..Len(s) : s[i] # ch THEN <<s>>
    ELSE LET i == CHOOSE j \in 1..Len(s) :
                      s[j] = ch /\ \A k \in 1..(j - 1) : s[k] # ch
         IN  <<SubSeq(s, 1, i - 1)>> \o Split(SubSeq(s, i + 1, Len(s)), ch)

\* str::trim
RECURSIVE Trim(_)
Trim(s) ==
    IF s = <<>> THEN s
    ELSE IF s[1] = " " THEN Trim(Tail(s))
    ELSE IF s[Len(s)] = " " THEN Trim(SubSeq(s, 1, Len(s) - 1))
    ELSE s

SeqToSet(s) == {s[i] : i \in 1..Len(s)}

Reverse(s) == [i \in 1..Len(s) |-> s[Len(s) + 1 - i]]

\* ------------------------------------------------------- label filter (lib)

\* A negated term that holds when its label is present.
AndTermHolds_NegationInverted(labels, rawTerm) ==
    LET term == Trim(rawTerm)
    IN  IF term # <<>> /\ term[1] = "!"
        THEN Tail(term) \in SeqToSet(labels)
        ELSE term \in SeqToSet(labels)

\* One term of an AND filter: "!x" holds when x is absent, "x" when present.
AndTermHolds(labels, rawTerm) ==
    LET term == Trim(rawTerm)
    IN  IF term # <<>> /\ term[1] = "!"
        THEN Tail(term) \notin SeqToSet(labels)
        ELSE term \in SeqToSet(labels)

\* A filter with both '+' and ',' read as an OR filter.
labels_match_filter_MixedAsOr(labels, filter) ==
    IF Contains(filter, <<",">>)
    THEN LET terms == Split(filter, ",")
         IN  \E i \in 1..Len(terms) : AndTermHolds(labels, terms[i])
    ELSE LET terms == Split(filter, "+")
         IN  \A i \in 1..Len(terms) : AndTermHolds(labels, terms[i])

\* An OR filter whose negated terms are alternatives: it accepts when a
\* positive term is among the labels or a negated one is not.
labels_match_filter_NegationAsAlternative(labels, filter) ==
    IF Contains(filter, <<"+">>) /\ Contains(filter, <<",">>) THEN FALSE
    ELSE IF Contains(filter, <<"+">>)
    THEN LET terms == Split(filter, "+")
         IN  \A i \in 1..Len(terms) : AndTermHolds(labels, terms[i])
    ELSE LET terms == Split(filter, ",")
         IN  \E i \in 1..Len(terms) : AndTermHolds(labels, terms[i])

labels_match_filter(labels, filter) ==
    IF Contains(filter, <<"+">>) /\ Contains(filter, <<",">>) THEN FALSE
    ELSE IF Contains(filter, <<"+">>)
    THEN LET terms == Split(filter, "+")
         IN  \A i \in 1..Len(terms) : AndTermHolds(labels, terms[i])
    ELSE LET terms    == Split(filter, ",")
             trimmed  == [i \in 1..Len(terms) |-> Trim(terms[i])]
             IsNeg(t) == t # <<>> /\ t[1] = "!"
             excluded == \E i \in 1..Len(terms) :
                            IsNeg(trimmed[i]) /\ Tail(trimmed[i]) \in SeqToSet(labels)
             has_positive   == \E i \in 1..Len(terms) : ~IsNeg(trimmed[i])
             positive_match == \E i \in 1..Len(terms) :
                            ~IsNeg(trimmed[i]) /\ trimmed[i] \in SeqToSet(labels)
         IN  IF excluded THEN FALSE ELSE (~has_positive \/ positive_match)

\* check_labels: RSSPEC_LABEL_FILTER unset or empty runs everything
check_labels(labels, envFilter) ==
    IF IsSome(envFilter) /\ Unwrap(envFilter) # <<>>
    THEN labels_match_filter(labels, Unwrap(envFilter))
    ELSE TRUE

\* check_fail_on_focus panics when RSSPEC_FAIL_ON_FOCUS is "1" or "true"
\* (ASCII case-insensitive)
FailOnFocusSet(envVal) ==
    /\ IsSome(envVal)
    /\ \/ Unwrap(envVal) = <<"1">>
       \/ ToLowercase(Unwrap(envVal)) = <<"t", "r", "u", "e">>

\* --------------------------------------------------------------- test tree
\* TestNode: Describe | It | Ordered.  The flags `focused` and `pending` of a
\* node are inputs of a run and live in the variables of the same name.

NoHooks == <<>>

Describe(name, labels, before_each, after_each, before_all, after_all, just_before_each, children) ==
    [kind |-> "Describe", name |-> name, labels |-> labels,
     before_each |-> before_each, after_each |-> after_each,
     before_all |-> before_all, after_all |-> after_all,
     just_before_each |-> just_before_each, children |-> children,
     retries |-> None, timeout_ms |-> None, must_pass_repeatedly |-> None,
     test_fn |-> "",
     continue_on_failure |-> FALSE, steps |-> <<>>]

It(name, labels, retries, timeout_ms, must_pass_repeatedly, test_fn) ==
    [kind |-> "It", name |-> name, labels |-> labels,
     before_each |-> NoHooks, after_each |-> NoHooks,
     before_all |-> NoHooks, after_all |-> NoHooks,
     just_before_each |-> NoHooks, children |-> <<>>,
     retries |-> retries, timeout_ms |-> timeout_ms,
     must_pass_repeatedly |-> must_pass_repeatedly, test_fn |-> test_fn,
     continue_on_failure |-> FALSE, steps |-> <<>>]

Ordered(name, labels, continue_on_failure, steps) ==
    [kind |-> "Ordered", name |-> name, labels |-> labels,
     before_each |-> NoHooks, after_each |-> NoHooks,
     before_all |-> NoHooks, after_all |-> NoHooks,
     just_before_each |-> NoHooks, children |-> <<>>,
     retries |-> None, timeout_ms |-> None, must_pass_repeatedly |-> None,
     test_fn |-> "",
     continue_on_failure |-> continue_on_failure, steps |-> steps]

\* The trees that are run:
\*
\*   suite 1:  describe "Ab"  labels [s]                              (node 1)
\*               before_all ba1 ba2, after_all aa1 aa2,
\*               before_each be1 be2, just_before_each jb1, after_each ae1
\*               it "x"  retries(1), must_pass_repeatedly(2)          (node 7)
\*               describe "c"                                         (node 2)
\*                 before_all ba3, after_all aa3,
\*                 before_each be3, just_before_each jb2, after_each ae2
\*                 it "y"  defers the cleanups c1, c2; c2 defers c4   (node 3)
\*               ordered "z": steps s1, s2                            (node 4)
\*   suite 2:  it "w"  labels [f], retries(1), timeout(1)             (node 5)
\*             ordered_continue_on_failure "v": steps s3, s4          (node 6)
Tree ==
    <<Describe(<<"A", "b">>, << <<"s">> >>, <<"be1", "be2">>, <<"ae1">>,
               <<"ba1", "ba2">>, <<"aa1", "aa2">>, <<"jb1">>, <<7, 2, 4>>),
      Describe(<<"c">>, <<>>, <<"be3">>, <<"ae2">>,
               <<"ba3">>, <<"aa3">>, <<"jb2">>, <<3>>),
      It(<<"y">>, <<>>, None, None, None, "body3"),
      Ordered(<<"z">>, <<>>, FALSE, <<"s1", "s2">>),
      It(<<"w">>, << <<"f">> >>, Some(1), Some(1), None, "body5"),
      Ordered(<<"v">>, <<>>, TRUE, <<"s3", "s4">>),
      It(<<"x">>, <<>>, Some(1), None, Some(2), "body7")>>

Nodes == 1..Len(Tree)

\* Suite { name, nodes }
Suites == <<[name |-> <<>>, nodes |-> <<1>>], [name |-> <<"B">>, nodes |-> <<5, 6>>]>>

Leaves == {n \in Nodes : Tree[n].kind # "Describe"}

\* Only Describe and It carry the flags focused and pending.
Flagged == {n \in Nodes : Tree[n].kind # "Ordered"}

\* What the closures do besides returning or panicking: the body of "y"
\* calls defer_cleanup twice, the step s1 of "z" once, and the cleanup c2 has
\* a call of defer_cleanup in its own code.
Defers(closure) ==
    IF closure = "body3" THEN <<"c1", "c2">>
    ELSE IF closure = "s1" THEN <<"c3">>
    ELSE IF closure = "c2" THEN <<"c4">>
    ELSE <<>>

\* The closures with a call of skip() in their code: two bodies, a step of an
\* Ordered and a before_all hook.  Whether a call of the closure reaches it is
\* open.
MaySkip == {"body3", "body7", "s1", "ba1"}

\* Closures whose panic payload is not a string (std::panic::panic_any).
NonStringPayload == {"s2"}

\* The values the path filter, RSSPEC_LABEL_FILTER and RSSPEC_FAIL_ON_FOCUS
\* are drawn from.
PathFilters == {None, Some(<<"a", "B">>), Some(<<">", " ", "Y">>)}

LabelFilters == {None, Some(<<"!", "s">>), Some(<<"f">>)}

FailOnFocusValues == {None, Some(<<"T", "r", "u", "e">>)}

\* ------------------------------------------------------------------- state

VARIABLES
    build,          \* the suite builders of the threads and their calls of run()
    call,           \* the call of labels_match_filter followed on its own
    focused,        \* the nodes built with focused = true (fit, fdescribe)
    pending,        \* the nodes built with pending = true (xit, xdescribe)
    config,         \* RunConfig { filter, list, include_ignored }
    env,            \* the environment variables the runner reads
    budget,         \* deviations the run may still take (see MaxDeviations)
    pc,             \* "start" | "running" | "done" | "aborted"
    focus_mode,     \* run_suites' local focus_mode
    suite,          \* index of the suite being run
    stack,          \* the open run_node(Describe) calls, outermost first
    exec,           \* the Case / OrderedSequence being executed, or Idle
    result,         \* RunResult
    CLEANUP_STACK,  \* thread-local deferred cleanups
    SKIP_REASON,    \* thread-local skip signal
    trace,          \* history: every closure call, in order
    reported        \* history: per leaf, the outcomes counted for it

vars == <<build, call, focused, pending, config, env, budget, pc, focus_mode, suite,
          stack, exec, result, CLEANUP_STACK, SKIP_REASON, trace, reported>>

\* No call of labels_match_filter is being followed.
NoCall == [state |-> "none"]

\* No suite is being built: the tree is the runner's.
NoBuild == [state |-> "none"]

Idle == [phase |-> "idle"]

\* RunResult::default()
RunResultDefault ==
    [passed |-> 0, failed |-> 0, pending |-> 0, skipped |-> 0, failures |-> <<>>]

\* HookChain::default()
HookChainDefault ==
    [before_each |-> <<>>, after_each |-> <<>>, just_before_each |-> <<>>,
     labels |-> <<>>]

\* A chain that puts the hooks of the inner Describe first.
with_describe_InnerFirst(chain, n) ==
    [before_each      |-> Tree[n].before_each \o chain.before_each,
     after_each       |-> Tree[n].after_each \o chain.after_each,
     just_before_each |-> Tree[n].just_before_each \o chain.just_before_each,
     labels           |-> chain.labels \o Tree[n].labels]

\* HookChain::with_describe: the chain of a Describe's children
with_describe(chain, n) ==
    [before_each      |-> chain.before_each \o Tree[n].before_each,
     after_each       |-> chain.after_each \o Tree[n].after_each,
     just_before_each |-> chain.just_before_each \o Tree[n].just_before_each,
     labels           |-> chain.labels \o Tree[n].labels]

\* tree_has_focus
RECURSIVE tree_has_focus(_, _)
tree_has_focus(nodes, foc) ==
    \E i \in 1..Len(nodes) :
        LET n == nodes[i]
        IN  CASE Tree[n].kind = "It" -> n \in foc
              [] Tree[n].kind = "Describe" ->
                     n \in foc \/ tree_has_focus(Tree[n].children, foc)
              [] OTHER -> FALSE

\* A run_nodes_pending that does not descend into nested Describes.
run_nodes_pending_Shallow(nodes) ==
    LET direct == {i \in 1..Len(nodes) : Tree[nodes[i]].kind # "Describe"}
        F[i \in 0..Len(nodes)] ==
            IF i = 0 THEN <<>>
            ELSE IF i \in direct THEN Append(F[i - 1], nodes[i]) ELSE F[i - 1]
    IN  F[Len(nodes)]

\* run_nodes_pending: the leaves it counts as pending, in visiting order
RECURSIVE run_nodes_pending(_)
run_nodes_pending(nodes) ==
    IF nodes = <<>> THEN <<>>
    ELSE LET n == Head(nodes)
         IN  (IF Tree[n].kind = "Describe"
              THEN run_nodes_pending(Tree[n].children)
              ELSE <<n>>) \o run_nodes_pending(Tail(nodes))

\* panic_message: the text of a string payload, else "unknown panic"
panic_message(payload) ==
    IF payload.str
    THEN [kind |-> "panic", src |-> payload.src, n |-> payload.n, m |-> payload.m,
          orig |-> payload.orig]
    ELSE [kind |-> "unknown panic", src |-> "", n |-> 0, m |-> 0, orig |-> None]

\* The payload a closure panics with.
PayloadOf(closure) ==
    [str |-> closure \notin NonStringPayload, src |-> closure, n |-> 0, m |-> 0,
     orig |-> None]

\* A summary that counts every step as failed.
StepsFailedPayload_AllOfThem(n, m) ==
    [str |-> TRUE, src |-> "ordered steps failed", n |-> m, m |-> m, orig |-> None]

\* panic!("{} of {} ordered steps failed", failures.len(), steps.len())
StepsFailedPayload(n, m) ==
    [str |-> TRUE, src |-> "ordered steps failed", n |-> n, m |-> m, orig |-> None]

\* A run_with_timeout that already fails at the bound.
run_with_timeout_AtBound(ms, elapsed, res) ==
    IF elapsed >= ms
    THEN Some([str |-> TRUE, src |-> "test timed out", n |-> ms, m |-> 0,
               orig |-> IF IsSome(res) THEN Some(panic_message(Unwrap(res)))
                        ELSE None])
    ELSE res

\* run_with_timeout: the outcome of f() after `elapsed`, under the bound ms.
\* format!("test timed out after {ms}ms (original error: {msg})") when the
\* closure panicked as well, format!("test timed out after {ms}ms") otherwise.
run_with_timeout(ms, elapsed, res) ==
    IF elapsed > ms
    THEN Some([str |-> TRUE, src |-> "test timed out", n |-> ms, m |-> 0,
               orig |-> IF IsSome(res) THEN Some(panic_message(Unwrap(res)))
                        ELSE None])
    ELSE res

\* One frame per open Describe (and one for the suite's top-level run_nodes):
\* the node, its children and the index of the child being run, the path, hook
\* chain and force_focused handed to the children, and where the frame is.
Frame(node, nodes, path, hooks, force_focused, phase) ==
    [node |-> node, nodes |-> nodes, i |-> 1, path |-> path, hooks |-> hooks,
     force_focused |-> force_focused, phase |-> phase, k |-> 1]

RootFrame(s) == Frame(0, Suites[s].nodes, <<>>, HookChainDefault, FALSE, "children")

\* The deviations an initial state spends.
Bit(b) == IF b THEN 1 ELSE 0

InitCost(foc, pend, cfg, e) ==
    Cardinality(foc) + Cardinality(pend) + Bit(IsSome(cfg.filter)) + Bit(cfg.list)
    + Bit(cfg.include_ignored) + Bit(IsSome(e.RSSPEC_LABEL_FILTER))
    + Bit(IsSome(e.RSSPEC_FAIL_ON_FOCUS))

Init ==
    /\ build = NoBuild
    /\ call = NoCall
    /\ focused \in SUBSET Flagged
    /\ pending \in SUBSET Flagged
    /\ config \in [filter : PathFilters, list : BOOLEAN, include_ignored : BOOLEAN]
    /\ env \in [RSSPEC_LABEL_FILTER : LabelFilters,
                RSSPEC_FAIL_ON_FOCUS : FailOnFocusValues]
    /\ InitCost(focused, pending, config, env) <= MaxDeviations
    /\ budget = MaxDeviations - InitCost(focused, pending, config, env)
    /\ pc = "start"
    /\ focus_mode = FALSE
    /\ suite = 0
    /\ stack = <<>>
    /\ exec = Idle
    /\ result = RunResultDefault
    /\ CLEANUP_STACK = <<>>
    /\ SKIP_REASON = None
    /\ trace = <<>>
    /\ reported = [n \in Leaves |-> <<>>]

\* --------------------------------------------------------------- traversal

Top == stack[Len(stack)]

\* run_nodes is about to call run_node on Cur
AtChild ==
    /\ pc = "running"
    /\ exec = Idle
    /\ stack # <<>>
    /\ Top.phase = "children"
    /\ Top.i <= Len(Top.nodes)

Cur == Top.nodes[Top.i]

\* A Describe whose run_nodes(children) has returned goes on to its after_all.
Normalize(f) ==
    IF f.node # 0 /\ f.phase = "children" /\ f.i > Len(f.nodes)
    THEN [f EXCEPT !.phase = "after_all", !.k = 1]
    ELSE f

\* run_node(Cur) returns: run_nodes moves to the next sibling
Advance(st) ==
    [st EXCEPT ![Len(st)] = Normalize([@ EXCEPT !.i = @ + 1])]

Event(kind, id, node, ok) ==
    [kind |-> kind, id |-> id, node |-> node, ok |-> ok, skip |-> FALSE, took |-> 0]

\* The closure called skip() before it returned or panicked.
Skipping(event, sk) == [event EXCEPT !.skip = sk]

\* The closure took d units of time.
Taking(event, d) == [event EXCEPT !.took = d]

\* An entry of RunResult.failures: format!("{full_path}{note}: {msg}")
Failure(path, note, payload) ==
    [path |-> Join(path, Sep), note |-> note, msg |-> panic_message(payload)]

Count(n, what) == [reported EXCEPT ![n] = Append(@, what)]

\* A run_suites that looks for focus in its first suite only.
RunSuites_FocusOfFirstSuite ==
    /\ pc = "start"
    /\ focus_mode' = tree_has_focus(Suites[1].nodes, focused)
    /\ IF config.list \/ Suites = <<>>
       THEN /\ pc' = "done"
            /\ UNCHANGED <<suite, stack>>
       ELSE /\ pc' = "running"
            /\ suite' = 1
            /\ stack' = <<RootFrame(1)>>
    /\ UNCHANGED <<build, call, focused, pending, config, env, budget, exec, result,
                   CLEANUP_STACK, SKIP_REASON, trace, reported>>

\* A run_suites that goes on to run the suites after listing them.
RunSuites_RunsAfterListing ==
    /\ pc = "start"
    /\ focus_mode' = \E s \in 1..Len(Suites) : tree_has_focus(Suites[s].nodes, focused)
    /\ pc' = "running"
    /\ suite' = 1
    /\ stack' = <<RootFrame(1)>>
    /\ UNCHANGED <<build, call, focused, pending, config, env, budget, exec, result,
                   CLEANUP_STACK, SKIP_REASON, trace, reported>>

\* run_suites up to the first suite; with config.list it only lists and returns
RunSuites ==
    /\ pc = "start"
    /\ focus_mode' = \E s \in 1..Len(Suites) : tree_has_focus(Suites[s].nodes, focused)
    /\ IF config.list \/ Suites = <<>>
       THEN /\ pc' = "done"
            /\ UNCHANGED <<suite, stack>>
       ELSE /\ pc' = "running"
            /\ suite' = 1
            /\ stack' = <<RootFrame(1)>>
    /\ UNCHANGED <<build, call, focused, pending, config, env, budget, exec, result,
                   CLEANUP_STACK, SKIP_REASON, trace, reported>>

\* run_suites: a suite's run_nodes returned; next suite, or summary and return
NextSuite ==
    /\ pc = "running"
    /\ exec = Idle
    /\ Len(stack) = 1
    /\ Top.i > Len(Top.nodes)
    /\ IF suite < Len(Suites)
       THEN /\ suite' = suite + 1
            /\ stack' = <<RootFrame(suite + 1)>>
            /\ pc' = pc
       ELSE /\ pc' = "done"
            /\ stack' = <<>>
            /\ suite' = suite
    /\ UNCHANGED <<build, call, focused, pending, config, env, budget, focus_mode, exec, result,
                   CLEANUP_STACK, SKIP_REASON, trace, reported>>

\* run_node, Describe with pending = true: run_nodes_pending and return
DescribePending ==
    /\ AtChild
    /\ Tree[Cur].kind = "Describe"
    /\ Cur \in pending
    /\ LET ls == run_nodes_pending(Tree[Cur].children)
       IN  /\ result' = [result EXCEPT !.pending = @ + Len(ls)]
           /\ reported' = [n \in Leaves |->
                  IF n \in SeqToSet(ls) THEN Append(reported[n], "pending")
                  ELSE reported[n]]
    /\ stack' = Advance(stack)
    /\ UNCHANGED <<build, call, focused, pending, config, env, budget, pc, focus_mode, suite,
                   exec, CLEANUP_STACK, SKIP_REASON, trace>>

\* run_node, Describe: child path, child hook chain, child force_focused
DescribeEnter ==
    /\ AtChild
    /\ Tree[Cur].kind = "Describe"
    /\ Cur \notin pending
    /\ stack' = Append(stack,
          Normalize(Frame(Cur, Tree[Cur].children,
                          Append(Top.path, Tree[Cur].name),
                          with_describe(Top.hooks, Cur),
                          Top.force_focused \/ Cur \in focused,
                          IF Tree[Cur].before_all = <<>> THEN "children"
                          ELSE "before_all")))
    /\ UNCHANGED <<build, call, focused, pending, config, env, budget, pc, focus_mode, suite,
                   exec, result, CLEANUP_STACK, SKIP_REASON, trace, reported>>

\* A runner that, after a before_all panic, still runs the children.
BeforeAllNext_RunsChildren(f, ok) ==
    IF f.k = Len(Tree[f.node].before_all) \/ ~ok
    THEN Normalize([f EXCEPT !.phase = "children", !.k = 1])
    ELSE [f EXCEPT !.k = @ + 1]

\* The frame after the k-th before_all hook returned (ok) or panicked: one
\* catch_unwind holds the whole loop, and a panic skips the children.
BeforeAllNext(f, ok) ==
    IF ~ok THEN [f EXCEPT !.phase = "after_all", !.k = 1]
    ELSE IF f.k = Len(Tree[f.node].before_all)
    THEN Normalize([f EXCEPT !.phase = "children", !.k = 1])
    ELSE [f EXCEPT !.k = @ + 1]

\* run_node, Describe: one before_all hook is called; it may call skip()
BeforeAll ==
    /\ pc = "running"
    /\ exec = Idle
    /\ stack # <<>>
    /\ Top.phase = "before_all"
    /\ \E ok \in BOOLEAN, sk \in BOOLEAN :
          LET hook == Tree[Top.node].before_all[Top.k]
          IN  /\ sk => hook \in MaySkip
              /\ Bit(~ok) + Bit(sk) <= budget
              /\ budget' = budget - Bit(~ok) - Bit(sk)
              /\ trace' = Append(trace,
                    Skipping(Event("before_all", hook, Top.node, ok), sk))
              /\ SKIP_REASON' = IF sk THEN Some("reason") ELSE SKIP_REASON
              /\ stack' = [stack EXCEPT ![Len(stack)] = BeforeAllNext(@, ok)]
              /\ result' =
                    IF ok THEN result
                    ELSE [result EXCEPT
                            !.failed = @ + 1,
                            !.failures = Append(@, Failure(Top.path, "(before_all)",
                                                           PayloadOf(hook)))]
    /\ UNCHANGED <<build, call, focused, pending, config, env, pc, focus_mode, suite, exec,
                   CLEANUP_STACK, reported>>

\* The frame after the k-th after_all hook returned (ok) or panicked: one
\* catch_unwind holds the whole loop, so a panic ends it.
AfterAllNext(f, ok) ==
    IF ok THEN [f EXCEPT !.k = @ + 1]
    ELSE [f EXCEPT !.k = Len(Tree[f.node].after_all) + 1]

\* run_node, Describe: one after_all hook is called
AfterAll ==
    /\ pc = "running"
    /\ exec = Idle
    /\ stack # <<>>
    /\ Top.phase = "after_all"
    /\ Top.k <= Len(Tree[Top.node].after_all)
    /\ \E ok \in BOOLEAN :
          LET hook == Tree[Top.node].after_all[Top.k]
          IN  /\ ok \/ budget > 0
              /\ budget' = budget - Bit(~ok)
              /\ trace' = Append(trace, Event("after_all", hook, Top.node, ok))
              /\ stack' = [stack EXCEPT ![Len(stack)] = AfterAllNext(@, ok)]
              /\ result' =
                    IF ok THEN result
                    ELSE [result EXCEPT
                            !.failed = @ + 1,
                            !.failures = Append(@, Failure(Top.path, "(after_all)",
                                                           PayloadOf(hook)))]
    /\ UNCHANGED <<build, call, focused, pending, config, env, pc, focus_mode, suite, exec,
                   CLEANUP_STACK, SKIP_REASON, reported>>

\* A runner with one hook chain for the whole walk: what a Describe appended
\* is still there when run_nodes goes on to its next sibling.
DescribeExit_SharedChain ==
    /\ pc = "running"
    /\ exec = Idle
    /\ stack # <<>>
    /\ Top.phase = "after_all"
    /\ Top.k > Len(Tree[Top.node].after_all)
    /\ stack' = Advance([SubSeq(stack, 1, Len(stack) - 1)
                            EXCEPT ![Len(stack) - 1].hooks = Top.hooks])
    /\ UNCHANGED <<build, call, focused, pending, config, env, budget, pc, focus_mode, suite,
                   exec, result, CLEANUP_STACK, SKIP_REASON, trace, reported>>

\* run_node, Describe: returns to the run_nodes of the parent
DescribeExit ==
    /\ pc = "running"
    /\ exec = Idle
    /\ stack # <<>>
    /\ Top.phase = "after_all"
    /\ Top.k > Len(Tree[Top.node].after_all)
    /\ stack' = Advance(SubSeq(stack, 1, Len(stack) - 1))
    /\ UNCHANGED <<build, call, focused, pending, config, env, budget, pc, focus_mode, suite,
                   exec, result, CLEANUP_STACK, SKIP_REASON, trace, reported>>

\* ------------------------------------------------------- leaves: selection

full_path(f, n) == Join(Append(f.path, Tree[n].name), Sep)

\* config.filter is set and the lower-cased path does not contain it
FilteredOut(f, n) ==
    /\ IsSome(config.filter)
    /\ ~Contains(ToLowercase(full_path(f, n)), ToLowercase(Unwrap(config.filter)))

\* A focus check that looks at the leaf's own flag only.
effectively_focused_OwnFlagOnly(f, n) == Tree[n].kind = "It" /\ n \in focused

\* It: *focused || force_focused.  Ordered has no flag: force_focused alone.
effectively_focused(f, n) ==
    IF Tree[n].kind = "It" THEN n \in focused \/ f.force_focused
    ELSE f.force_focused

all_labels(f, n) == f.hooks.labels \o Tree[n].labels

\* A run_node that looks at the focus before it looks at the pending flag.
Disposition_FocusFirst(f, n) ==
    IF FilteredOut(f, n) THEN "filtered"
    ELSE IF focus_mode /\ ~effectively_focused(f, n) /\ ~config.include_ignored
    THEN "skipped"
    ELSE IF effectively_focused(f, n) /\ focus_mode
            /\ FailOnFocusSet(env.RSSPEC_FAIL_ON_FOCUS)
    THEN "abort"
    ELSE IF Tree[n].kind = "It" /\ n \in pending THEN "pending"
    ELSE IF ~check_labels(all_labels(f, n), env.RSSPEC_LABEL_FILTER)
    THEN "label_filtered"
    ELSE "run"

\* What run_node does with the leaf n, by the order of its checks.
Disposition(f, n) ==
    IF FilteredOut(f, n) THEN "filtered"
    ELSE IF Tree[n].kind = "It" /\ n \in pending THEN "pending"
    ELSE IF focus_mode /\ ~effectively_focused(f, n) /\ ~config.include_ignored
    THEN "skipped"
    ELSE IF effectively_focused(f, n) /\ focus_mode
            /\ FailOnFocusSet(env.RSSPEC_FAIL_ON_FOCUS)
    THEN "abort"
    ELSE IF ~check_labels(all_labels(f, n), env.RSSPEC_LABEL_FILTER)
    THEN "label_filtered"
    ELSE "run"

AtLeaf == AtChild /\ Tree[Cur].kind # "Describe"

\* run_node, It / Ordered: the path filter rejects the leaf; nothing is counted
LeafFilteredOut ==
    /\ AtLeaf
    /\ Disposition(Top, Cur) = "filtered"
    /\ stack' = Advance(stack)
    /\ UNCHANGED <<build, call, focused, pending, config, env, budget, pc, focus_mode, suite,
                   exec, result, CLEANUP_STACK, SKIP_REASON, trace, reported>>

\* run_node, It: pending
LeafPending ==
    /\ AtLeaf
    /\ Disposition(Top, Cur) = "pending"
    /\ result' = [result EXCEPT !.pending = @ + 1]
    /\ reported' = Count(Cur, "pending")
    /\ stack' = Advance(stack)
    /\ UNCHANGED <<build, call, focused, pending, config, env, budget, pc, focus_mode, suite,
                   exec, CLEANUP_STACK, SKIP_REASON, trace>>

\* run_node, It / Ordered: focus mode skips the leaf
LeafFocusSkipped ==
    /\ AtLeaf
    /\ Disposition(Top, Cur) = "skipped"
    /\ result' = [result EXCEPT !.skipped = @ + 1]
    /\ reported' = Count(Cur, "skipped")
    /\ stack' = Advance(stack)
    /\ UNCHANGED <<build, call, focused, pending, config, env, budget, pc, focus_mode, suite,
                   exec, CLEANUP_STACK, SKIP_REASON, trace>>

\* check_fail_on_focus panics; nothing in the runner catches it
FailOnFocus ==
    /\ AtLeaf
    /\ Disposition(Top, Cur) = "abort"
    /\ pc' = "aborted"
    /\ UNCHANGED <<build, call, focused, pending, config, env, budget, focus_mode, suite, stack,
                   exec, result, CLEANUP_STACK, SKIP_REASON, trace, reported>>

\* run_node, It / Ordered: the label filter rejects the leaf; nothing is counted
LeafLabelFiltered ==
    /\ AtLeaf
    /\ Disposition(Top, Cur) = "label_filtered"
    /\ stack' = Advance(stack)
    /\ UNCHANGED <<build, call, focused, pending, config, env, budget, pc, focus_mode, suite,
                   exec, result, CLEANUP_STACK, SKIP_REASON, trace, reported>>

\* ------------------------------------------------------- leaves: execution

IsIt(e) == Tree[e.node].kind = "It"

\* A with_retries that makes `retries` attempts in all.
max_attempts_NoExtra(retries) == retries

\* with_retries: max_attempts = retries + 1, in u32 arithmetic as a build
\* without overflow checks computes it (with them the addition panics, see
\* Overflows).
max_attempts(retries) == (retries + 1) % (2 ^ WordBits)

\* Skip the loops that have nothing (left) to call.
RECURSIVE Settle(_)
Settle(e) ==
    IF e.phase = "before_each" /\ e.k > Len(e.hooks.before_each)
    THEN Settle([e EXCEPT !.phase = "just_before_each", !.k = 1])
    ELSE IF e.phase = "just_before_each" /\ e.k > Len(e.hooks.just_before_each)
    THEN Settle([e EXCEPT !.phase = IF IsIt(e) THEN "body" ELSE "steps", !.k = 1])
    ELSE IF e.phase = "steps" /\ e.k > Len(Tree[e.node].steps)
    THEN Settle([e EXCEPT
                   !.phase = "after_each", !.k = 1,
                   !.body_result =
                       IF e.failures > 0
                       THEN Some(StepsFailedPayload(e.failures, Len(Tree[e.node].steps)))
                       ELSE @])
    ELSE IF e.phase = "after_each" /\ e.k > Len(e.hooks.after_each)
    THEN [e EXCEPT !.phase = "run_deferred_cleanups", !.k = 1]
    ELSE e

\* The guarded part panicked: straight to the after_each hooks.
Unwind(e, payload) ==
    Settle([e EXCEPT !.body_result = Some(payload), !.phase = "after_each", !.k = 1])

\* A composed body that starts the clock of the timeout anew.
StartBody_RestartsClock(e) ==
    Settle([e EXCEPT !.phase = "before_each", !.k = 1, !.body_result = None,
                     !.after_each_panic = None, !.failures = 0,
                     !.cleanups = <<>>, !.first_panic = None, !.elapsed = 0])

\* One call of the composed body (test_body, or the closure of an Ordered)
\* starts: its locals are fresh.
StartBody(e) ==
    Settle([e EXCEPT !.phase = "before_each", !.k = 1, !.body_result = None,
                     !.after_each_panic = None, !.failures = 0,
                     !.cleanups = <<>>, !.first_panic = None])

NewExec(f, n) ==
    [phase |-> "before_each", k |-> 1, node |-> n, full_path |-> full_path(f, n),
     path |-> Append(f.path, Tree[n].name), hooks |-> f.hooks,
     body_result |-> None, after_each_panic |-> None, failures |-> 0,
     cleanups |-> <<>>, first_panic |-> None,
     attempt |-> 1, last_panic |-> None, rep |-> 1, elapsed |-> 0]

\* A composed body that only warns about a panicking cleanup.
BodyOutcome_DropsCleanupPanic(e) ==
    IF IsSome(e.body_result) THEN e.body_result ELSE e.after_each_panic

\* What the composed body raises when it is over (None: it returns):
\* run_deferred_cleanups re-raises its first panic, then the guarded part's
\* panic, then the first after_each panic.
BodyOutcome(e) ==
    IF IsSome(e.first_panic) THEN e.first_panic
    ELSE IF IsSome(e.body_result) THEN e.body_result
    ELSE e.after_each_panic

\* with_retries goes round again: the attempt failed and is not the last
RetryAgain(e) ==
    /\ IsIt(e)
    /\ IsSome(Tree[e.node].retries)
    /\ IsSome(BodyOutcome(e))
    /\ e.attempt < max_attempts(Unwrap(Tree[e.node].retries))

\* A must_pass_repeatedly that is content with one pass.
RepeatAgain_OnePass(e) == FALSE

\* must_pass_repeatedly goes round again: the pass succeeded and is not the last
RepeatAgain(e) ==
    /\ IsIt(e)
    /\ IsSome(Tree[e.node].must_pass_repeatedly)
    /\ ~IsSome(BodyOutcome(e))
    /\ e.rep < Unwrap(Tree[e.node].must_pass_repeatedly)

\* The outcome of the decorated body of n: under run_with_timeout when the It
\* has a timeout, as catch_unwind returns it otherwise.
Outcome(n, elapsed, res) ==
    IF IsSome(Tree[n].timeout_ms)
    THEN run_with_timeout(Unwrap(Tree[n].timeout_ms), elapsed, res)
    ELSE res

\* A report that counts a failure and does not describe it.
Report_CountsOnly(n, path, outcome) ==
    IF IsSome(outcome)
    THEN /\ result' = [result EXCEPT !.failed = @ + 1]
         /\ reported' = Count(n, "failed")
         /\ SKIP_REASON' = IF Tree[n].kind = "It" THEN None ELSE SKIP_REASON
    ELSE IF Tree[n].kind = "It" /\ IsSome(SKIP_REASON)
    THEN /\ result' = [result EXCEPT !.skipped = @ + 1]
         /\ reported' = Count(n, "skipped")
         /\ SKIP_REASON' = None
    ELSE /\ result' = [result EXCEPT !.passed = @ + 1]
         /\ reported' = Count(n, "passed")
         /\ SKIP_REASON' = IF Tree[n].kind = "It" THEN None ELSE SKIP_REASON

\* A report that does not look at the skip reason.
Report_IgnoresSkip(n, path, outcome) ==
    IF IsSome(outcome)
    THEN /\ result' = [result EXCEPT
                         !.failed = @ + 1,
                         !.failures = Append(@, Failure(path, "", Unwrap(outcome)))]
         /\ reported' = Count(n, "failed")
         /\ SKIP_REASON' = IF Tree[n].kind = "It" THEN None ELSE SKIP_REASON
    ELSE /\ result' = [result EXCEPT !.passed = @ + 1]
         /\ reported' = Count(n, "passed")
         /\ SKIP_REASON' = IF Tree[n].kind = "It" THEN None ELSE SKIP_REASON

\* report_outcome, and for an It the skip check before it
Report(n, path, outcome) ==
    IF IsSome(outcome)
    THEN /\ result' = [result EXCEPT
                         !.failed = @ + 1,
                         !.failures = Append(@, Failure(path, "", Unwrap(outcome)))]
         /\ reported' = Count(n, "failed")
         /\ SKIP_REASON' = IF Tree[n].kind = "It" THEN None ELSE SKIP_REASON
    ELSE IF Tree[n].kind = "It" /\ IsSome(SKIP_REASON)
    THEN /\ result' = [result EXCEPT !.skipped = @ + 1]
         /\ reported' = Count(n, "skipped")
         /\ SKIP_REASON' = None
    ELSE /\ result' = [result EXCEPT !.passed = @ + 1]
         /\ reported' = Count(n, "passed")
         /\ SKIP_REASON' = IF Tree[n].kind = "It" THEN None ELSE SKIP_REASON

\* run_node, It / Ordered: every check passed and the composed body starts.
\* must_pass_repeatedly(0) calls nothing and the It is reported at once.
LeafStart ==
    /\ AtLeaf
    /\ Disposition(Top, Cur) = "run"
    /\ IF Tree[Cur].kind = "It" /\ Tree[Cur].must_pass_repeatedly = Some(0)
       THEN /\ Report(Cur, Append(Top.path, Tree[Cur].name), Outcome(Cur, 0, None))
            /\ stack' = Advance(stack)
            /\ UNCHANGED <<exec, trace>>
       ELSE /\ exec' = StartBody(NewExec(Top, Cur))
            /\ trace' = Append(trace, Event("test_body", "", Cur, TRUE))
            /\ UNCHANGED <<stack, result, reported, SKIP_REASON>>
    /\ UNCHANGED <<build, call, focused, pending, config, env, budget, pc, focus_mode, suite,
                   CLEANUP_STACK>>

Running == pc = "running" /\ exec # Idle

\* test_body: one before_each hook of the chain is called (outermost first)
BeforeEach ==
    /\ Running
    /\ exec.phase = "before_each"
    /\ \E ok \in BOOLEAN :
          LET hook == exec.hooks.before_each[exec.k]
          IN  /\ ok \/ budget > 0
              /\ budget' = budget - Bit(~ok)
              /\ trace' = Append(trace, Event("before_each", hook, exec.node, ok))
              /\ exec' = IF ok THEN Settle([exec EXCEPT !.k = @ + 1])
                         ELSE Unwind(exec, PayloadOf(hook))
    /\ UNCHANGED <<build, call, focused, pending, config, env, pc, focus_mode, suite, stack,
                   result, CLEANUP_STACK, SKIP_REASON, reported>>

\* test_body: one just_before_each hook of the chain is called
JustBeforeEach ==
    /\ Running
    /\ exec.phase = "just_before_each"
    /\ \E ok \in BOOLEAN :
          LET hook == exec.hooks.just_before_each[exec.k]
          IN  /\ ok \/ budget > 0
              /\ budget' = budget - Bit(~ok)
              /\ trace' = Append(trace, Event("just_before_each", hook, exec.node, ok))
              /\ exec' = IF ok THEN Settle([exec EXCEPT !.k = @ + 1])
                         ELSE Unwind(exec, PayloadOf(hook))
    /\ UNCHANGED <<build, call, focused, pending, config, env, pc, focus_mode, suite, stack,
                   result, CLEANUP_STACK, SKIP_REASON, reported>>

\* test_body: test_fn() is called.  The body may defer cleanups, may call
\* skip(), takes its time, and returns or panics.  Time is only followed for
\* an It with a timeout, the one place where it is read, and only the time
\* the body takes.
Body ==
    /\ Running
    /\ exec.phase = "body"
    /\ \E ok \in BOOLEAN, sk \in BOOLEAN, d \in 0..MaxDuration :
          LET fn == Tree[exec.node].test_fn
          IN  /\ sk => fn \in MaySkip
              /\ d > 0 => IsSome(Tree[exec.node].timeout_ms)
              /\ Bit(~ok) + Bit(sk) + Bit(d > 0) <= budget
              /\ budget' = budget - Bit(~ok) - Bit(sk) - Bit(d > 0)
              /\ trace' = Append(trace,
                    Taking(Skipping(Event("body", fn, exec.node, ok), sk), d))
              /\ CLEANUP_STACK' = CLEANUP_STACK \o Defers(fn)
              /\ SKIP_REASON' = IF sk THEN Some("reason") ELSE SKIP_REASON
              /\ exec' = IF ok
                         THEN Settle([exec EXCEPT !.phase = "after_each", !.k = 1,
                                                  !.elapsed = @ + d])
                         ELSE Unwind([exec EXCEPT !.elapsed = @ + d], PayloadOf(fn))
    /\ UNCHANGED <<build, call, focused, pending, config, env, pc, focus_mode, suite, stack,
                   result, reported>>

\* An Ordered whose steps are all called, with continue_on_failure or without.
Step_NeverAborts ==
    /\ Running
    /\ exec.phase = "steps"
    /\ \E ok \in BOOLEAN, sk \in BOOLEAN :
          LET step == Tree[exec.node].steps[exec.k]
          IN  /\ sk => step \in MaySkip
              /\ Bit(~ok) + Bit(sk) <= budget
              /\ budget' = budget - Bit(~ok) - Bit(sk)
              /\ trace' = Append(trace, Skipping(Event("step", step, exec.node, ok), sk))
              /\ CLEANUP_STACK' = CLEANUP_STACK \o Defers(step)
              /\ SKIP_REASON' = IF sk THEN Some("reason") ELSE SKIP_REASON
              /\ exec' =
                    IF ok THEN Settle([exec EXCEPT !.k = @ + 1])
                    ELSE Settle([exec EXCEPT !.k = @ + 1, !.failures = @ + 1])
    /\ UNCHANGED <<build, call, focused, pending, config, env, pc, focus_mode, suite, stack,
                   result, reported>>

\* Ordered: one step is called; it may defer cleanups and call skip().  With
\* continue_on_failure
\* its panic is caught and collected; without, it unwinds out of the step loop.
Step ==
    /\ Running
    /\ exec.phase = "steps"
    /\ \E ok \in BOOLEAN, sk \in BOOLEAN :
          LET step == Tree[exec.node].steps[exec.k]
          IN  /\ sk => step \in MaySkip
              /\ Bit(~ok) + Bit(sk) <= budget
              /\ budget' = budget - Bit(~ok) - Bit(sk)
              /\ trace' = Append(trace, Skipping(Event("step", step, exec.node, ok), sk))
              /\ CLEANUP_STACK' = CLEANUP_STACK \o Defers(step)
              /\ SKIP_REASON' = IF sk THEN Some("reason") ELSE SKIP_REASON
              /\ exec' =
                    IF ok THEN Settle([exec EXCEPT !.k = @ + 1])
                    ELSE IF Tree[exec.node].continue_on_failure
                    THEN Settle([exec EXCEPT !.k = @ + 1, !.failures = @ + 1])
                    ELSE Unwind(exec, PayloadOf(step))
    /\ UNCHANGED <<build, call, focused, pending, config, env, pc, focus_mode, suite, stack,
                   result, reported>>

\* test_body: one after_each hook is called (hooks.after_each.iter().rev()),
\* each under its own catch_unwind; the first panic is kept
AfterEach ==
    /\ Running
    /\ exec.phase = "after_each"
    /\ \E ok \in BOOLEAN :
          LET hook == Reverse(exec.hooks.after_each)[exec.k]
          IN  /\ ok \/ budget > 0
              /\ budget' = budget - Bit(~ok)
              /\ trace' = Append(trace, Event("after_each", hook, exec.node, ok))
              /\ exec' = Settle([exec EXCEPT
                                   !.k = @ + 1,
                                   !.after_each_panic =
                                       IF ~ok /\ ~IsSome(@) THEN Some(PayloadOf(hook))
                                       ELSE @])
    /\ UNCHANGED <<build, call, focused, pending, config, env, pc, focus_mode, suite, stack,
                   result, CLEANUP_STACK, SKIP_REASON, reported>>

\* run_deferred_cleanups: drain the thread-local stack and reverse it
run_deferred_cleanups ==
    /\ Running
    /\ exec.phase = "run_deferred_cleanups"
    /\ CLEANUP_STACK' = <<>>
    /\ exec' = [exec EXCEPT
                  !.cleanups = Reverse(CLEANUP_STACK),
                  !.k = 1,
                  !.phase = IF CLEANUP_STACK = <<>> THEN "end" ELSE "cleanups"]
    /\ UNCHANGED <<build, call, focused, pending, config, env, budget, pc, focus_mode, suite,
                   stack, result, SKIP_REASON, trace, reported>>

\* run_deferred_cleanups: one cleanup is called under its own catch_unwind.
\* The stack was drained before the loop and its borrow released: a cleanup
\* that calls defer_cleanup (df; whether a call reaches it is open) pushes
\* onto the thread-local stack, which this loop no longer looks at.
Cleanup ==
    /\ Running
    /\ exec.phase = "cleanups"
    /\ \E ok \in BOOLEAN, df \in BOOLEAN :
          LET c == exec.cleanups[exec.k]
          IN  /\ df => Defers(c) # <<>>
              /\ Bit(~ok) + Bit(df) <= budget
              /\ budget' = budget - Bit(~ok) - Bit(df)
              /\ CLEANUP_STACK' = IF df THEN CLEANUP_STACK \o Defers(c)
                                  ELSE CLEANUP_STACK
              /\ trace' = Append(trace, Event("cleanup", c, exec.node, ok))
              /\ exec' = [exec EXCEPT
                            !.k = @ + 1,
                            !.first_panic =
                                IF ~ok /\ ~IsSome(@) THEN Some(PayloadOf(c)) ELSE @,
                            !.phase = IF exec.k = Len(exec.cleanups) THEN "end"
                                      ELSE @]
    /\ UNCHANGED <<build, call, focused, pending, config, env, pc, focus_mode, suite, stack,
                   result, SKIP_REASON, reported>>

\* A retry loop around the passes: the attempts used up by one pass are
\* missing in the next.
RunAgain_SharedBudget ==
    /\ Running
    /\ exec.phase = "end"
    /\ RetryAgain(exec) \/ RepeatAgain(exec)
    /\ exec' = IF RetryAgain(exec)
               THEN StartBody([exec EXCEPT !.attempt = @ + 1,
                                           !.last_panic = BodyOutcome(exec)])
               ELSE StartBody([exec EXCEPT !.rep = @ + 1])
    /\ trace' = Append(trace, Event("test_body", "", exec.node, TRUE))
    /\ UNCHANGED <<build, call, focused, pending, config, env, budget, pc, focus_mode, suite,
                   stack, result, CLEANUP_STACK, SKIP_REASON, reported>>

\* with_retries / must_pass_repeatedly call the composed body once more
RunAgain ==
    /\ Running
    /\ exec.phase = "end"
    /\ RetryAgain(exec) \/ RepeatAgain(exec)
    /\ exec' = IF RetryAgain(exec)
               THEN StartBody([exec EXCEPT !.attempt = @ + 1,
                                           !.last_panic = BodyOutcome(exec)])
               ELSE StartBody([exec EXCEPT !.rep = @ + 1, !.attempt = 1,
                                           !.last_panic = None])
    /\ trace' = Append(trace, Event("test_body", "", exec.node, TRUE))
    /\ UNCHANGED <<build, call, focused, pending, config, env, budget, pc, focus_mode, suite,
                   stack, result, CLEANUP_STACK, SKIP_REASON, reported>>

\* The decorated body is over: the outcome is counted and run_node returns
LeafEnd ==
    /\ Running
    /\ exec.phase = "end"
    /\ ~RetryAgain(exec)
    /\ ~RepeatAgain(exec)
    /\ Report(exec.node, exec.path,
              Outcome(exec.node, exec.elapsed, BodyOutcome(exec)))
    /\ exec' = Idle
    /\ stack' = Advance(stack)
    /\ UNCHANGED <<build, call, focused, pending, config, env, budget, pc, focus_mode, suite,
                   CLEANUP_STACK, trace>>

Next ==
    \/ RunSuites
    \/ NextSuite
    \/ DescribePending
    \/ DescribeEnter
    \/ BeforeAll
    \/ AfterAll
    \/ DescribeExit
    \/ LeafFilteredOut
    \/ LeafPending
    \/ LeafFocusSkipped
    \/ FailOnFocus
    \/ LeafLabelFiltered
    \/ LeafStart
    \/ BeforeEach
    \/ JustBeforeEach
    \/ Body
    \/ Step
    \/ AfterEach
    \/ run_deferred_cleanups
    \/ Cleanup
    \/ RunAgain
    \/ LeafEnd

Spec == Init /\ [][Next]_vars

\* ===================================================== labels_match_filter
\* The function on its own: one call with a filter given as its terms and the
\* separators between them.

\* The labels: whole names, one of which is a prefix of another.
Names == {<<"a">>, <<"a", "b">>, <<"b">>}

\* The text of one term, "x" or "!x", with blanks around it or without.
TermText(t, padded) ==
    LET blank == IF padded THEN <<" ">> ELSE <<>>
    IN  blank \o (IF t.neg THEN <<"!">> ELSE <<>>) \o t.name \o blank

\* The filter text of an AND filter: the terms joined by '+'.
FilterText(terms, padded) ==
    Join([i \in 1..Len(terms) |-> TermText(terms[i], padded)], <<"+">>)

\* The filter text in general: after each term but the last, its separator.
RECURSIVE Filter(_, _, _)
Filter(terms, seps, padded) ==
    IF Len(terms) = 1 THEN TermText(terms[1], padded)
    ELSE TermText(terms[1], padded) \o <<seps[1]>>
         \o Filter(Tail(terms), Tail(seps), padded)

FilterOf(c) == Filter(c.terms, c.seps, c.padded)

\* A leaf's labels and a filter are given: a filter of one term or more, each
\* separator a '+' or a ','.  The runner is not running.
InitFilter ==
    /\ build = NoBuild
    /\ \E k \in 1..MaxTerms, j \in 0..MaxLabels, p \in BOOLEAN :
          \E l \in [1..j -> Names],
             t \in [1..k -> [neg : BOOLEAN, name : Names]],
             sp \in [1..(k - 1) -> {"+", ","}] :
                call = [state |-> "called", labels |-> l, terms |-> t, seps |-> sp,
                        padded |-> p, result |-> FALSE]
    /\ focused = {}
    /\ pending = {}
    /\ config = [filter |-> None, list |-> FALSE, include_ignored |-> FALSE]
    /\ env = [RSSPEC_LABEL_FILTER |-> None, RSSPEC_FAIL_ON_FOCUS |-> None]
    /\ budget = 0
    /\ pc = "start"
    /\ focus_mode = FALSE
    /\ suite = 0
    /\ stack = <<>>
    /\ exec = Idle
    /\ result = RunResultDefault
    /\ CLEANUP_STACK = <<>>
    /\ SKIP_REASON = None
    /\ trace = <<>>
    /\ reported = [n \in Leaves |-> <<>>]

\* labels_match_filter(labels, filter) returns
Match ==
    /\ call.state = "called"
    /\ call' = [call EXCEPT
                  !.state = "returned",
                  !.result = labels_match_filter(call.labels, FilterOf(call))]
    /\ UNCHANGED <<build, focused, pending, config, env, budget, pc, focus_mode,
                   suite, stack, exec, result, CLEANUP_STACK, SKIP_REASON, trace,
                   reported>>

\* run_node: `if !crate::check_labels(&all_labels) { return; }`: the leaf is
\* run, or run_node returns without a word and without a count.
CheckLabels ==
    /\ call.state = "returned"
    /\ call' = [call EXCEPT !.state = IF call.result THEN "run" ELSE "return"]
    /\ UNCHANGED <<build, focused, pending, config, env, budget, pc, focus_mode,
                   suite, stack, exec, result, CLEANUP_STACK, SKIP_REASON, trace,
                   reported>>

NextFilter ==
    \/ Match
    \/ CheckLabels

SpecFilter == InitFilter /\ [][NextFilter]_vars

\* ============================================================ SuiteBuilder
\* The thread-local builder and run(), on their own: the threads issue
\* operations of the builder API before, while and after they call run().

Threads == {1, 2}

\* GroupFrame: of the five hook lists one is kept, before_each (the others
\* are filled the same way).  A node is a frame closed (TestNode::Describe
\* takes over its fields) or an It.  Names, hooks and labels are told apart by
\* the operation that declared them: <<thread, number within its run>>.
GroupFrame(name) ==
    [kind |-> "Describe", name |-> name, labels |-> <<>>, before_each |-> <<>>,
     children |-> <<>>]

\* GroupFrame::root()
root == GroupFrame(<<>>)

Leaf(name) ==
    [kind |-> "It", name |-> name, labels |-> <<>>, before_each |-> <<>>,
     children |-> <<>>]

\* The operations of SuiteBuilder that the API reaches through with_builder.
BuilderOps == {"push_group", "pop_group", "add_node", "add_before_each", "set_labels"}

Returned(stk) == [panicked |-> FALSE, stack |-> stk]

Panicked(stk) == [panicked |-> TRUE, stack |-> stk]

\* current_frame_mut: self.stack.last_mut().expect("rsspec: empty builder
\* stack"): the place of the top frame, None for the panic.
current_frame_mut(stk) == IF stk = <<>> THEN None ELSE Some(Len(stk))

push_group(stk, name) == Returned(Append(stk, GroupFrame(name)))

\* add_node: self.current_frame_mut().children.push(node)
add_node(stk, node) ==
    LET top == current_frame_mut(stk)
    IN  IF top = None THEN Panicked(stk)
        ELSE Returned([stk EXCEPT ![Unwrap(top)].children = Append(@, node)])

\* pop_group: the top frame is popped (expect("rsspec: unbalanced group
\* push/pop") on an empty stack) and pushed as a node onto the children of
\* the frame that is now on top, if there is one.
pop_group(stk) ==
    IF stk = <<>> THEN Panicked(stk)
    ELSE add_node(SubSeq(stk, 1, Len(stk) - 1), stk[Len(stk)])

\* add_before_each: self.current_frame_mut().before_each.push(hook)
add_before_each(stk, hook) ==
    LET top == current_frame_mut(stk)
    IN  IF top = None THEN Panicked(stk)
        ELSE Returned([stk EXCEPT ![Unwrap(top)].before_each = Append(@, hook)])

\* A set_labels that adds to the labels of the frame.
set_labels_Extends(stk, labels) ==
    LET top == current_frame_mut(stk)
    IN  IF top = None THEN Panicked(stk)
        ELSE Returned([stk EXCEPT ![Unwrap(top)].labels = @ \o labels])

\* set_labels: self.current_frame_mut().labels = labels
set_labels(stk, labels) ==
    LET top == current_frame_mut(stk)
    IN  IF top = None THEN Panicked(stk)
        ELSE Returned([stk EXCEPT ![Unwrap(top)].labels = labels])

\* An into_nodes that hands over the children of the bottom frame whatever
\* is open above it.
into_nodes_AnyDepth(stk) ==
    IF stk = <<>> THEN [panicked |-> TRUE, nodes |-> None]
    ELSE [panicked |-> FALSE, nodes |-> Some(stk[1].children)]

\* into_nodes: assert_eq!(self.stack.len(), 1, ..), then the children of the
\* one frame.
into_nodes(stk) ==
    IF Len(stk) # 1 THEN [panicked |-> TRUE, nodes |-> None]
    ELSE [panicked |-> FALSE, nodes |-> Some(stk[1].children)]

\* The operation op, the id-th of its run, on the builder.
Apply(op, id, stk) ==
    CASE op = "push_group"      -> push_group(stk, id)
      [] op = "pop_group"       -> pop_group(stk)
      [] op = "add_node"        -> add_node(stk, Leaf(id))
      [] op = "add_before_each" -> add_before_each(stk, id)
      [] op = "set_labels"      -> set_labels(stk, <<id>>)

\* A with_builder that does nothing when there is no builder.
with_builder_SilentNoOp(builder, op, id) ==
    IF builder = None THEN [panicked |-> FALSE, BUILDER |-> None]
    ELSE LET r == Apply(op, id, Unwrap(builder))
         IN  [panicked |-> r.panicked, BUILDER |-> Some(r.stack)]

\* with_builder: expect("rsspec: Context used outside of rsspec::run()"),
\* then the operation on the builder.
with_builder(builder, op, id) ==
    IF builder = None THEN [panicked |-> TRUE, BUILDER |-> None]
    ELSE LET r == Apply(op, id, Unwrap(builder))
         IN  [panicked |-> r.panicked, BUILDER |-> Some(r.stack)]

\* What a thread did last: the operation, the phase of run() it was issued
\* in, the depth of the frame stack before it, and whether it panicked.  The
\* log of a thread holds the operations issued in its building phase.
NoOp == [op |-> "", phase |-> "", depth |-> 0, panicked |-> FALSE]

Did(op, phase, depth, panicked) ==
    [op |-> op, phase |-> phase, depth |-> depth, panicked |-> panicked]

Depth(builder) == IF builder = None THEN 0 ELSE Len(Unwrap(builder))

Runner ==
    /\ focused = {}
    /\ pending = {}
    /\ config = [filter |-> None, list |-> FALSE, include_ignored |-> FALSE]
    /\ env = [RSSPEC_LABEL_FILTER |-> None, RSSPEC_FAIL_ON_FOCUS |-> None]
    /\ budget = 0
    /\ pc = "start"
    /\ focus_mode = FALSE
    /\ suite = 0
    /\ stack = <<>>
    /\ exec = Idle
    /\ result = RunResultDefault
    /\ CLEANUP_STACK = <<>>
    /\ SKIP_REASON = None
    /\ trace = <<>>
    /\ reported = [n \in Leaves |-> <<>>]

\* thread_local! CLEANUP_STACK and SKIP_REASON: a value for each thread, and
\* `with` gives a thread its own.  What is deferred and the reason given are
\* told apart by the thread that called.

\* A defer_cleanup that pushes onto one stack of the process.
defer_cleanup_Shared(stacks, t) == [stacks EXCEPT ![1] = Append(@, t)]

\* defer_cleanup: CLEANUP_STACK.with(|stack| stack.borrow_mut().push(..))
defer_cleanup(stacks, t) == [stacks EXCEPT ![t] = Append(@, t)]

\* skip: SKIP_REASON.with(|cell| *cell.borrow_mut() = Some(reason))
skip(reasons, t) == [reasons EXCEPT ![t] = Some(t)]

\* No case has ended on the thread.
NoCase == [ran |-> <<>>, outcome |-> "none", reason |-> None, asked |-> FALSE]

\* No thread has called run(): BUILDER is None on each of them.
InitBuilder ==
    /\ build = [state |-> "threads",
                BUILDER |-> [t \in Threads |-> None],
                phase |-> [t \in Threads |-> "idle"],
                handed |-> [t \in Threads |-> None],
                returned |-> [t \in Threads |-> FALSE],
                last |-> [t \in Threads |-> NoOp],
                log |-> [t \in Threads |-> <<>>],
                CLEANUP_STACK |-> [t \in Threads |-> <<>>],
                SKIP_REASON |-> [t \in Threads |-> None],
                asked |-> [t \in Threads |-> FALSE],
                case |-> [t \in Threads |-> NoCase],
                ops |-> 0]
    /\ call = NoCall
    /\ Runner

RunnerUnchanged ==
    UNCHANGED <<call, focused, pending, config, env, budget, pc, focus_mode, suite,
                stack, exec, result, CLEANUP_STACK, SKIP_REASON, trace, reported>>

\* run(), phase 1: *cell.borrow_mut() = Some(SuiteBuilder::new()), and
\* body(Context) starts.  A thread may call run() again once it returned.
RunStart ==
    /\ \E t \in Threads :
          /\ build.phase[t] \in {"idle", "returned"}
          /\ build' = [build EXCEPT !.BUILDER[t] = Some(<<root>>),
                                    !.phase[t] = "building",
                                    !.handed[t] = None,
                                    !.returned[t] = FALSE,
                                    !.log[t] = <<>>,
                                    !.last[t] = Did("run", build.phase[t], 0, FALSE)]
    /\ RunnerUnchanged

\* One operation of the builder API is issued on a thread.  Its panic is the
\* failure of a case when a case body issued it, and leaves run() or the
\* thread's own code otherwise: run() is called from main, and the panic ends
\* the thread.
BuilderOp ==
    /\ build.ops < MaxOps
    /\ \E t \in Threads, op \in BuilderOps :
          LET id == <<t, Len(build.log[t]) + 1>>
              r  == with_builder(build.BUILDER[t], op, id)
          IN  /\ build.phase[t] # "unwound"
              /\ build' = [build EXCEPT
                    !.ops = @ + 1,
                    !.BUILDER[t] = r.BUILDER,
                    !.log[t] = IF build.phase[t] = "building"
                               THEN Append(@, [op |-> op, id |-> id])
                               ELSE @,
                    !.last[t] = Did(op, build.phase[t], Depth(build.BUILDER[t]),
                                    r.panicked),
                    !.phase[t] = IF r.panicked /\ @ # "executing" THEN "unwound"
                                 ELSE @]
    /\ RunnerUnchanged

\* body(Context) panics in code of its own: the panic leaves run().
BodyPanics ==
    /\ \E t \in Threads :
          /\ build.phase[t] = "building"
          /\ build' = [build EXCEPT
                !.phase[t] = "unwound",
                !.last[t] = Did("body", "building", Depth(build.BUILDER[t]), TRUE)]
    /\ RunnerUnchanged

\* run(): body(Context) returned; the builder is taken out of the
\* thread-local and into_nodes gives the tree of phase 2, or panics.
BuildEnd ==
    /\ \E t \in Threads :
          LET r == into_nodes(Unwrap(build.BUILDER[t]))
          IN  /\ build.phase[t] = "building"
              /\ build' = [build EXCEPT
                    !.BUILDER[t] = None,
                    !.handed[t] = r.nodes,
                    !.last[t] = Did("into_nodes", "building",
                                    Depth(build.BUILDER[t]), r.panicked),
                    !.phase[t] = IF r.panicked THEN "unwound" ELSE "executing"]
    /\ RunnerUnchanged

\* run(), phase 2: run_suites returns the run result.
RunEnd ==
    /\ \E t \in Threads :
          /\ build.phase[t] = "executing"
          /\ build' = [build EXCEPT !.phase[t] = "returned", !.returned[t] = TRUE]
    /\ RunnerUnchanged

\* A case body running on thread t calls defer_cleanup.
DeferCleanup ==
    /\ build.ops < MaxOps
    /\ \E t \in Threads :
          /\ build.phase[t] = "executing"
          /\ Unwrap(build.handed[t]) # <<>>
          /\ build' = [build EXCEPT
                !.ops = @ + 1,
                !.CLEANUP_STACK = defer_cleanup(@, t)]
    /\ RunnerUnchanged

\* A case body running on thread t calls skip().
SkipCalled ==
    /\ build.ops < MaxOps
    /\ \E t \in Threads :
          /\ build.phase[t] = "executing"
          /\ Unwrap(build.handed[t]) # <<>>
          /\ build' = [build EXCEPT
                !.ops = @ + 1,
                !.asked[t] = TRUE,
                !.SKIP_REASON = skip(@, t)]
    /\ RunnerUnchanged

\* The case running on thread t ends without a panic: run_deferred_cleanups
\* drains the stack of the thread and calls what it held, last first, and
\* run_node takes the skip reason of the thread: skipped with one, passed
\* without.
CaseEnd ==
    /\ build.ops < MaxOps
    /\ \E t \in Threads :
          /\ build.phase[t] = "executing"
          /\ Unwrap(build.handed[t]) # <<>>
          /\ build' = [build EXCEPT
                !.ops = @ + 1,
                !.CLEANUP_STACK[t] = <<>>,
                !.SKIP_REASON[t] = None,
                !.asked[t] = FALSE,
                !.case[t] = [ran |-> Reverse(build.CLEANUP_STACK[t]),
                             outcome |-> IF build.SKIP_REASON[t] # None
                                         THEN "skipped" ELSE "passed",
                             reason |-> build.SKIP_REASON[t],
                             asked |-> build.asked[t]]]
    /\ RunnerUnchanged

NextBuilder ==
    \/ RunStart
    \/ DeferCleanup
    \/ SkipCalled
    \/ CaseEnd
    \/ BuilderOp
    \/ BodyPanics
    \/ BuildEnd
    \/ RunEnd

SpecBuilder == InitBuilder /\ [][NextBuilder]_vars

\* ===================================================== the decorators of an It
\* The decorated body of one Case on its own: run_node composes
\* must_pass_repeatedly around with_retries around test_body, takes the
\* outcome and counts the Case.  test_body stands for hooks, body and
\* cleanups: a call of it returns or panics.

\* u32::MAX
U32Max == 2 ^ WordBits - 1

\* The values of ItBuilder::retries and ItBuilder::must_pass_repeatedly
RetryCounts == {None, Some(0), Some(1), Some(U32Max)}

RepeatCounts == {None, Some(0), Some(1), Some(2)}

\* `retries + 1` does not fit u32: a panic in a build with overflow checks
\* (the dev and test profiles), a wrap to 0 in one without (release).
Overflows(retries) == retries + 1 > U32Max

\* An It is built with its decorators and run_node is about to call the
\* decorated body.  The runner of the trees is not running.
InitDecorated ==
    /\ build = NoBuild
    /\ \E r \in RetryCounts, m \in RepeatCounts, oc \in BOOLEAN :
          call = [state |-> "decorated", retries |-> r, must_pass_repeatedly |-> m,
                  overflow_checks |-> oc, at |-> "must_pass_repeatedly",
                  rep |-> 1, attempt |-> 1, max_attempts |-> 0,
                  last_panic |-> FALSE, calls |-> 0, completed |-> 0,
                  hollow |-> FALSE, skip |-> FALSE,
                  outcome |-> None, counted |-> None]
    /\ Runner

DecoratedUnchanged ==
    UNCHANGED <<build, focused, pending, config, env, budget, pc, focus_mode,
                suite, stack, exec, result, CLEANUP_STACK, SKIP_REASON, trace,
                reported>>

\* must_pass_repeatedly: `for attempt in 1..=n` calls with_retries or is over;
\* without the decorator with_retries is called once.
NextPass ==
    /\ call.at = "must_pass_repeatedly"
    /\ LET n == IF call.must_pass_repeatedly = None THEN 1
                ELSE Unwrap(call.must_pass_repeatedly)
       IN  call' = IF call.rep <= n
                   THEN [call EXCEPT !.at = "with_retries"]
                   ELSE [call EXCEPT !.at = "outcome", !.outcome = Some("ok")]
    /\ DecoratedUnchanged

\* with_retries: max_attempts = retries + 1 and last_panic = None; without
\* the decorator test_body is called once and its panic goes up.
EnterRetries ==
    /\ call.at = "with_retries"
    /\ call' =
          IF call.retries = None
          THEN [call EXCEPT !.at = "attempt", !.attempt = 1, !.max_attempts = 1,
                            !.last_panic = FALSE]
          ELSE IF Overflows(Unwrap(call.retries)) /\ call.overflow_checks
          THEN [call EXCEPT !.at = "outcome", !.outcome = Some("panic")]
          ELSE [call EXCEPT !.at = "attempt", !.attempt = 1,
                            !.max_attempts = max_attempts(Unwrap(call.retries)),
                            !.last_panic = FALSE]
    /\ DecoratedUnchanged

\* with_retries: `for attempt in 1..=max_attempts` calls test_body, which
\* returns (with or without a call of skip()) or panics.
Attempt ==
    /\ call.at = "attempt"
    /\ call.attempt <= call.max_attempts
    /\ \E ok \in BOOLEAN, skips \in BOOLEAN :
          call' = IF ok
                  THEN [call EXCEPT !.calls = @ + 1, !.completed = @ + 1,
                                    !.skip = @ \/ skips,
                                    !.rep = @ + 1, !.at = "must_pass_repeatedly"]
                  ELSE [call EXCEPT !.calls = @ + 1, !.skip = @ \/ skips,
                                    !.last_panic = TRUE, !.attempt = @ + 1]
    /\ DecoratedUnchanged

\* with_retries: the loop is over; `if let Some(e) = last_panic` resumes the
\* panic, and with_retries returns otherwise.
AttemptsOver ==
    /\ call.at = "attempt"
    /\ call.attempt > call.max_attempts
    /\ call' = IF call.last_panic
               THEN [call EXCEPT !.at = "outcome", !.outcome = Some("panic")]
               ELSE [call EXCEPT !.hollow = TRUE,
                                 !.rep = @ + 1, !.at = "must_pass_repeatedly"]
    /\ DecoratedUnchanged

\* run_node: the outcome is taken; Ok with a skip reason counts as skipped, Ok
\* without as passed, Err as failed.
CountIt ==
    /\ call.at = "outcome"
    /\ call' = [call EXCEPT
                  !.at = "counted",
                  !.counted = IF call.outcome = Some("panic") THEN Some("failed")
                              ELSE IF call.skip THEN Some("skipped")
                              ELSE Some("passed")]
    /\ DecoratedUnchanged

NextDecorated ==
    \/ NextPass
    \/ EnterRetries
    \/ Attempt
    \/ AttemptsOver
    \/ CountIt

SpecDecorators == InitDecorated /\ [][NextDecorated]_vars

\* ------------------------------------------------------------------ C25
\* C25: pop_group on a builder whose stack holds no frame above the root
\* panics, and so does into_nodes on a stack that is not exactly the root
\* frame; after either panic the run() of that thread has handed no tree to
\* the runner and produced no run result.
C25_UnbalancedScopesAreFatal ==
    \A t \in Threads :
        LET l == build.last[t]
        IN  /\ l.op = "pop_group" /\ l.phase = "building" /\ l.depth <= 1
                  => l.panicked
            /\ l.op = "into_nodes" /\ l.depth # 1 => l.panicked
            /\ l.op \in {"pop_group", "into_nodes"} /\ l.phase = "building"
                  /\ l.panicked
                  => /\ build.phase[t] = "unwound"
                     /\ build.handed[t] = None
                     /\ ~build.returned[t]

\* One thread popped the root frame, the other finished its body with a
\* group still open: both panicked.
C25_Witness ==
    /\ build.last[1] = Did("pop_group", "building", 1, TRUE)
    /\ build.last[2] = Did("into_nodes", "building", 2, TRUE)
    /\ build.phase = [t \in Threads |-> "unwound"]
    /\ build.handed = [t \in Threads |-> None]

ParentOf(n) ==
    IF \E p \in Nodes : n \in SeqToSet(Tree[p].children)
    THEN CHOOSE p \in Nodes : n \in SeqToSet(Tree[p].children)
    ELSE 0

\* The Describe nodes above n, outermost first.
RECURSIVE AncestorsOf(_)
AncestorsOf(n) ==
    IF ParentOf(n) = 0 THEN <<>>
    ELSE Append(AncestorsOf(ParentOf(n)), ParentOf(n))

Ancestors == [n \in Nodes |-> AncestorsOf(n)]

Above(n) == SeqToSet(Ancestors[n])

Descendants == [g \in Nodes |-> {n \in Nodes : g \in Above(n)}]

Below(g) == Descendants[g]

LeavesBelow(g) == Below(g) \cap Leaves

\* The hooks of one kind (and the labels) that the nodes above n hand down to
\* it: outermost group first, and within a group in declaration order.
RECURSIVE Inherit(_, _)
Inherit(groups, field) ==
    IF groups = <<>> THEN <<>>
    ELSE Tree[Head(groups)][field] \o Inherit(Tail(groups), field)

Inherited ==
    [n \in Nodes |->
        [before_each      |-> Inherit(Ancestors[n], "before_each"),
         just_before_each |-> Inherit(Ancestors[n], "just_before_each"),
         after_each       |-> Inherit(Ancestors[n], "after_each"),
         labels           |-> Inherit(Ancestors[n], "labels")]]

ChainBeforeEach(n) == Inherited[n].before_each

ChainJustBeforeEach(n) == Inherited[n].just_before_each

ChainAfterEach(n) == Inherited[n].after_each

ChainLabels(n) == Inherited[n].labels

\* The path of n as text: ancestor names and own name joined by " > ".
Paths ==
    [n \in Nodes |->
        Join([i \in 1..(Len(Ancestors[n]) + 1) |->
                IF i <= Len(Ancestors[n]) THEN Tree[Ancestors[n][i]].name
                ELSE Tree[n].name], Sep)]

PathOf(n) == Paths[n]

\* The closures a node declares.
ClosuresOf(n) ==
    SeqToSet(Tree[n].before_all) \cup SeqToSet(Tree[n].after_all)
    \cup SeqToSet(Tree[n].before_each) \cup SeqToSet(Tree[n].just_before_each)
    \cup SeqToSet(Tree[n].after_each) \cup SeqToSet(Tree[n].steps)
    \cup (IF Tree[n].kind = "It"
          THEN {Tree[n].test_fn} \cup SeqToSet(Defers(Tree[n].test_fn))
          ELSE {})

\* n is pending by its own flag (an It) or lies below a pending Describe.
PendingByTree(n) ==
    \/ Tree[n].kind = "It" /\ n \in pending
    \/ \E g \in Above(n) : g \in pending

\* n is focused by its own flag (an It) or lies below a focused Describe.
FocusedByTree(n) ==
    \/ Tree[n].kind = "It" /\ n \in focused
    \/ \E g \in Above(n) : g \in focused

\* The path filter is set and n's path does not contain it, ignoring case.
PathRejects(n) ==
    /\ IsSome(config.filter)
    /\ ~Contains(ToLowercase(PathOf(n)), ToLowercase(Unwrap(config.filter)))

\* =========================================================== the history

Calls == {i \in DOMAIN trace : trace[i].kind # "test_body"}

\* How often the closure id has been called.
CallsOf(id) == Cardinality({i \in Calls : trace[i].id = id})

\* Some closure was called for the leaf n (its body, a step, or a hook or
\* cleanup run on its behalf).
RanFor(n) == \E i \in Calls : trace[i].node = n

\* A before_all hook of g panicked.
BeforeAllFailed(g) ==
    \E i \in Calls : trace[i].kind = "before_all" /\ trace[i].node = g /\ ~trace[i].ok

\* The traversal gets to n: the run is no listing, and no Describe above n
\* had a before_all hook panic.
Reached(n) == ~config.list /\ \A g \in Above(n) : ~BeforeAllFailed(g)

\* Panics of before_all / after_all hooks so far.
HookFailures ==
    Cardinality({i \in Calls : trace[i].kind \in {"before_all", "after_all"}
                               /\ ~trace[i].ok})

Total == result.passed + result.failed + result.pending + result.skipped

\* ================================================================== claims

LabelsOf(n) == ChainLabels(n) \o Tree[n].labels

LabelAccepts(n) == check_labels(LabelsOf(n), env.RSSPEC_LABEL_FILTER)

\* Focus mode is on and leaves n out.
FocusSkips(n) == focused # {} /\ ~config.include_ignored /\ ~FocusedByTree(n)

\* The leaf n is encountered and not filtered out: the traversal gets to it,
\* and either it lies below a pending Describe (no filter is consulted there)
\* or the path filter accepts it and it is pending, left out by focus mode, or
\* accepted by the label filter.
Counted(n) ==
    /\ Reached(n)
    /\ \/ \E g \in Above(n) : g \in pending
       \/ /\ ~PathRejects(n)
          /\ \/ PendingByTree(n)
             \/ FocusSkips(n)
             \/ LabelAccepts(n)

CountedLeaves == {n \in Leaves : Counted(n)}

\* ---------------------------------------------------------------------- C1

Declared == [g \in Nodes |-> UNION {ClosuresOf(d) : d \in {g} \cup Below(g)}]

SubtreeClosures(g) == Declared[g]

FocusModeOn == focused # {} /\ ~config.include_ignored

Ran == {<<"passed">>, <<"failed">>, <<"skipped">>}

RECURSIVE LastStartUpTo(_)
LastStartUpTo(i) ==
    IF i = 0 \/ trace[i].kind = "test_body" THEN i ELSE LastStartUpTo(i - 1)

SegStart == LastStartUpTo(Len(trace))

Seg == (SegStart + 1)..Len(trace)

SegCalls(kind, id) ==
    Cardinality({i \in Seg : trace[i].kind = kind /\ trace[i].id = id})

SegFailed(kinds) == \E i \in Seg : trace[i].kind \in kinds /\ ~trace[i].ok

\* One execution of the composed body is over.
AtEnd == exec # Idle /\ exec.phase = "end"

\* C4: when an execution of the composed body of an It or Ordered is over,
\* every after_each hook of the groups above the leaf has been called exactly
\* once in it, and the cleanups deferred in it have each been called once and
\* none is left on the stack, whether hooks, body or steps panicked or not;
\* and if a before_each hook panicked, no just_before_each hook, body or step
\* was called in it.
C4_AfterEachAndCleanupsAlwaysRun ==
    AtEnd =>
        LET n == exec.node
        IN  /\ trace[SegStart].node = n
            /\ \A i \in Seg : trace[i].node = n
            /\ \A h \in SeqToSet(ChainAfterEach(n)) : SegCalls("after_each", h) = 1
            /\ Cardinality({i \in Seg : trace[i].kind = "after_each"})
                  = Len(ChainAfterEach(n))
            /\ CLEANUP_STACK = <<>>
            /\ \A c \in SeqToSet(Defers(Tree[n].test_fn)) :
                  SegCalls("cleanup", c) = SegCalls("body", Tree[n].test_fn)
            /\ SegFailed({"before_each"}) =>
                  \A i \in Seg : trace[i].kind \notin {"just_before_each", "body", "step"}

\* ---------------------------------------------------------------------- C5

Guarded == {"before_each", "just_before_each", "body", "step"}

\* The first call of one of the kinds that panicked in the execution.
FirstFailed(kinds) ==
    CHOOSE i \in Seg :
        /\ trace[i].kind \in kinds /\ ~trace[i].ok
        /\ \A j \in Seg : j < i => ~(trace[j].kind \in kinds /\ ~trace[j].ok)

\* The failure entry of leaf n with the message of the closure called at i.
EntryFor(n, i) ==
    [path |-> PathOf(n), note |-> "", msg |-> panic_message(PayloadOf(trace[i].id))]

\* C5: when the outcome of an It is counted and, in the execution that decided
\* it, the guarded part (before_each, just_before_each, body) and one or more
\* after_each hooks panicked, failed grows by one and the one new failure
\* entry carries the message of the guarded part's panic; when only after_each
\* hooks panicked, it carries the message of the first after_each hook that
\* panicked (the innermost).
C5_BodyFailureIsReported ==
    [][AtEnd /\ exec' = Idle /\ Tree[exec.node].kind = "It"
       /\ SegFailed({"after_each"}) =>
            /\ result'.failed = result.failed + 1
            /\ result'.failures =
                  Append(result.failures,
                         EntryFor(exec.node,
                                  IF SegFailed(Guarded) THEN FirstFailed(Guarded)
                                  ELSE FirstFailed({"after_each"})))]_vars

\* ---------------------------------------------------------------------- C6

Call(kind, id) == [kind |-> kind, id |-> id]

Each(kind, ids) == [j \in 1..Len(ids) |-> Call(kind, ids[j])]

\* What the guarded part of one execution of n calls when nothing panics:
\* the before_each hooks, outermost group first and in declaration order, then
\* the just_before_each hooks likewise, then the body (the steps in order).
GuardedOrder(n) ==
    Each("before_each", ChainBeforeEach(n))
    \o Each("just_before_each", ChainJustBeforeEach(n))
    \o (IF Tree[n].kind = "It" THEN <<Call("body", Tree[n].test_fn)>>
        ELSE Each("step", Tree[n].steps))

\* The after_each hooks, innermost group first.
AfterEachOrder(n) == Each("after_each", Reverse(ChainAfterEach(n)))

\* The call at i panicked and so ended the guarded part.
Stops(i) ==
    /\ ~trace[i].ok
    /\ ~(trace[i].kind = "step" /\ Tree[trace[i].node].continue_on_failure)

\* C6: when an execution of the composed body of a leaf is over, its calls
\* were, in this order: the calls of GuardedOrder up to and including the
\* first that panicked (all of them when none did), then every after_each
\* hook, innermost group first, then cleanups only.
C6_OrderOfOneExecution ==
    AtEnd =>
        LET n    == exec.node
            m    == Cardinality({i \in Seg : trace[i].kind \in Guarded})
            a    == Len(AfterEachOrder(n))
            at(j) == trace[SegStart + j]
        IN  /\ m <= Len(GuardedOrder(n))
            /\ SegStart + m + a <= Len(trace)
            /\ \A j \in 1..m :
                  /\ Call(at(j).kind, at(j).id) = GuardedOrder(n)[j]
                  /\ j < m => ~Stops(SegStart + j)
            /\ m < Len(GuardedOrder(n)) => m > 0 /\ Stops(SegStart + m)
            /\ \A j \in 1..a :
                  Call(at(m + j).kind, at(m + j).id) = AfterEachOrder(n)[j]
            /\ \A i \in Seg : i > SegStart + m + a => trace[i].kind = "cleanup"

\* An execution of "y", two groups deep, in which nothing panicked.
C6_Witness ==
    /\ AtEnd
    /\ exec.node = 3
    /\ [j \in 1..(Len(trace) - SegStart) |-> trace[SegStart + j].id]
          = <<"be1", "be2", "be3", "jb1", "jb2", "body3", "ae2", "ae1", "c2", "c1">>

\* ---------------------------------------------------------------------- C7

Groups == {g \in Nodes : Tree[g].kind = "Describe"}

\* The failure entries with the path of node g and the note.
FailureEntries(g, note) ==
    {i \in DOMAIN result.failures :
        result.failures[i].path = PathOf(g) /\ result.failures[i].note = note}

\* The calls of the before_all (after_all) hooks of g.
HookCalls(g, kind) == {i \in Calls : trace[i].kind = kind /\ trace[i].node = g}

\* The calls made for the nodes below g: for its leaves, and the before_all
\* and after_all hooks of its nested groups.
CallsBelow(g) == {i \in Calls : trace[i].node \in Below(g)}

\* C7: when the run returns and a before_all hook of a Describe panicked,
\* nothing was called for any node below it and none of its leaves was counted,
\* the run result holds exactly one failure entry for the group's path with
\* the note "(before_all)", and every after_all hook of the group was called.
C7_BeforeAllFailure ==
    pc = "done" =>
        \A g \in Groups :
            BeforeAllFailed(g) =>
                /\ CallsBelow(g) = {}
                /\ \A n \in LeavesBelow(g) : reported[n] = <<>>
                /\ Cardinality(FailureEntries(g, "(before_all)")) = 1
                /\ \A h \in SeqToSet(Tree[g].after_all) : CallsOf(h) = 1

\* ---------------------------------------------------------------------- C8

\* C8: when the run returns, every after_all hook of a Describe whose after_all
\* hooks were begun has been called, whether an earlier one panicked or not,
\* and the run result holds one "(after_all)" failure entry for the group's
\* path per after_all hook that panicked.
C8_AfterAllIndividuallyGuarded ==
    pc = "done" =>
        \A g \in Groups :
            HookCalls(g, "after_all") # {} =>
                /\ \A h \in SeqToSet(Tree[g].after_all) : CallsOf(h) = 1
                /\ Cardinality(FailureEntries(g, "(after_all)"))
                      = Cardinality({i \in HookCalls(g, "after_all") : ~trace[i].ok})

\* ---------------------------------------------------------------------- C9

\* C9: when the run returns, every before_all and every after_all hook of a
\* Describe that was reached and is not pending has been called exactly once,
\* every before_all call of the group precedes, and every after_all call of
\* the group follows, every call made for a node below the group.
C9_BeforeAllAfterAllOnce ==
    pc = "done" =>
        \A g \in Groups :
            Reached(g) /\ ~PendingByTree(g) /\ g \notin pending =>
                /\ \A h \in SeqToSet(Tree[g].before_all) \cup SeqToSet(Tree[g].after_all) :
                      CallsOf(h) = 1
                /\ \A i \in CallsBelow(g) :
                      /\ \A b \in HookCalls(g, "before_all") : b < i
                      /\ \A a \in HookCalls(g, "after_all") : i < a

\* --------------------------------------------------------------------- C10

\* The calls that panicked.
Panics == {i \in Calls : ~trace[i].ok}

\* The panic at i shows in the run result: as an entry with the note of the
\* hook kind for the group's path (before_all, after_all), else as an entry
\* for the path of the leaf it was called for.
HasEntry(i) ==
    CASE trace[i].kind = "before_all" -> FailureEntries(trace[i].node, "(before_all)") # {}
      [] trace[i].kind = "after_all" -> FailureEntries(trace[i].node, "(after_all)") # {}
      [] OTHER -> FailureEntries(trace[i].node, "") # {}

\* The composed body of the leaf was started again after the call at i.
RunAgainAfter(i) ==
    \E j \in DOMAIN trace :
        j > i /\ trace[j].kind = "test_body" /\ trace[j].node = trace[i].node

\* The run result only grows.
ResultKept ==
    /\ result'.passed >= result.passed
    /\ result'.failed >= result.failed
    /\ result'.pending >= result.pending
    /\ result'.skipped >= result.skipped
    /\ Len(result'.failures) >= Len(result.failures)
    /\ SubSeq(result'.failures, 1, Len(result.failures)) = result.failures

\* C10, as stated: when the run returns, every panic of a body, step, hook or
\* cleanup shows in the run result as a failure entry for its leaf or group.
C10_EveryFailureHasAnEntry ==
    pc = "done" => \A i \in Panics : HasEntry(i)

\* C10, amended: the run is not ended by the panic of a body, step, hook or
\* cleanup (it ends early only by the fail-on-focus check, which panics in
\* the runner itself before anything of the focused leaf is called); the run
\* result only grows; when the run returns, every panic shows in the run
\* result as a failure entry for its leaf or group, except a panic in an
\* attempt of an It with retries after which the composed body was started
\* again; and every leaf encountered and not filtered out has been counted,
\* whatever panicked before it.
C10_FailuresAreContained ==
    /\ [](pc = "aborted" =>
            /\ FailOnFocusSet(env.RSSPEC_FAIL_ON_FOCUS) /\ focused # {}
            /\ exec = Idle)
    /\ [][ResultKept]_vars
    /\ [](pc = "done" =>
            /\ \A i \in Panics :
                  \/ HasEntry(i)
                  \/ IsSome(Tree[trace[i].node].retries) /\ RunAgainAfter(i)
            /\ \A n \in CountedLeaves : Len(reported[n]) = 1)

\* The run is over: the body of "x" panicked in an attempt that was retried
\* and "x" passed, an after_all hook panicked, "w" in the next suite passed,
\* and a step of "v" panicked and "v" failed with the step after it run.
C10_Witness ==
    /\ pc = "done"
    /\ \E i \in Panics : trace[i].id = "body7"
    /\ reported[7] = <<"passed">>
    /\ \E i \in Panics : trace[i].id = "aa1"
    /\ reported[5] = <<"passed">>
    /\ \E i \in Panics : trace[i].id = "s3"
    /\ CallsOf("s4") = 1
    /\ reported[6] = <<"failed">>
    /\ result.failed = 2

\* --------------------------------------------------------------------- C11

\* The starts of the composed body of leaf n, and the calls of the one
\* execution that starts at i.
Marks(n) == {i \in DOMAIN trace : trace[i].kind = "test_body" /\ trace[i].node = n}

ExecutionAt(i) ==
    {j \in Calls : /\ j > i
                   /\ trace[j].node = trace[i].node
                   /\ ~\E k \in Marks(trace[i].node) : i < k /\ k < j}

\* The composed body panics when anything called in it panicked.
FailedAt(i) == \E j \in ExecutionAt(i) : ~trace[j].ok

LastMark(n) == CHOOSE i \in Marks(n) : \A k \in Marks(n) : k <= i

\* How many executions in a row, up to the one that starts at i, failed.
RECURSIVE FailedRun(_)
FailedRun(i) ==
    IF ~FailedAt(i) THEN 0
    ELSE LET before == {k \in Marks(trace[i].node) : k < i}
         IN  IF before = {} THEN 1
             ELSE 1 + FailedRun(CHOOSE k \in before : \A l \in before : l <= k)

\* The call whose panic the execution that starts at i raises: the first
\* cleanup that panicked, else the guarded part's, else the first after_each's.
FirstOf(calls) == CHOOSE j \in calls : \A k \in calls : j <= k

RaisedAt(i) ==
    LET failed(kinds) == {j \in ExecutionAt(i) : trace[j].kind \in kinds /\ ~trace[j].ok}
    IN  IF failed({"cleanup"}) # {} THEN FirstOf(failed({"cleanup"}))
        ELSE IF failed(Guarded) # {} THEN FirstOf(failed(Guarded))
        ELSE FirstOf(failed({"after_each"}))

\* The time the calls made for n have taken.
RECURSIVE TookUpTo(_, _)
TookUpTo(i, n) ==
    IF i = 0 THEN 0
    ELSE TookUpTo(i - 1, n) + (IF trace[i].node = n THEN trace[i].took ELSE 0)

Elapsed(n) == TookUpTo(Len(trace), n)

\* The step counts leaf n with the outcome res (None: no failure) of its
\* decorated body, seen through its timeout if it has one: a failure adds one
\* to failed and the entry of its message, anything else leaves both alone and
\* adds one to passed or to skipped.
CountedFailed(n, msg) ==
    /\ result'.failed = result.failed + 1
    /\ result'.failures =
          Append(result.failures, [path |-> PathOf(n), note |-> "", msg |-> msg])
    /\ reported'[n] = Append(reported[n], "failed")

CountedNotFailed(n) ==
    /\ result'.failed = result.failed
    /\ result'.failures = result.failures
    /\ result'.passed + result'.skipped = result.passed + result.skipped + 1
    /\ reported'[n] \in {Append(reported[n], "passed"), Append(reported[n], "skipped")}

CountedAs(n, res) ==
    LET outcome == Outcome(n, Elapsed(n), res)
    IN  IF IsSome(outcome) THEN CountedFailed(n, panic_message(Unwrap(outcome)))
        ELSE CountedNotFailed(n)

\* C11: for an It with retries = r, when one attempt is over: no more than
\* r + 1 attempts in a row have failed; the composed body is called again
\* only after a failed attempt that was not the (r + 1)-th in a row (or, after
\* a success, for the next pass of must_pass_repeatedly); and the It is
\* counted only after a success, as not failed, or after r + 1 failed attempts
\* in a row, with the failure the last attempt raised.
C11_WithRetries ==
    [][AtEnd /\ IsSome(Tree[exec.node].retries) =>
        LET n    == exec.node
            r    == Unwrap(Tree[n].retries)
            last == LastMark(n)
            run  == FailedRun(last)
        IN  /\ run <= r + 1
            /\ trace' # trace =>
                  \/ 0 < run /\ run < r + 1
                  \/ run = 0 /\ IsSome(Tree[n].must_pass_repeatedly)
            /\ exec' = Idle =>
                  /\ run = 0 \/ run = r + 1
                  /\ CountedAs(n, IF run = 0 THEN None
                                  ELSE Some(PayloadOf(trace[RaisedAt(last)].id)))]_vars

\* The run is over.  "x" failed its first attempt in a before_each hook and its
\* second in its body, and is counted as failed with the body's message; "w"
\* failed its first attempt, succeeded in its second and is counted as passed.
C11_Witness ==
    /\ pc = "done"
    /\ Cardinality(Marks(7)) = 2
    /\ \E i \in Panics : trace[i].id = "be1" /\ trace[i].node = 7
    /\ reported[7] = <<"failed">>
    /\ \E i \in DOMAIN result.failures :
          result.failures[i].path = PathOf(7) /\ result.failures[i].msg.src = "body7"
    /\ Cardinality(Marks(5)) = 2
    /\ reported[5] = <<"passed">>

\* --------------------------------------------------------------------- C12

\* The executions of the composed body of n that succeeded: each one ends a
\* pass of must_pass_repeatedly.
Passes(n) == {i \in Marks(n) : ~FailedAt(i)}

\* The attempts a pass may take before it has failed.
Budget(n) == IF IsSome(Tree[n].retries) THEN Unwrap(Tree[n].retries) + 1 ELSE 1

\* C12: for an It with must_pass_repeatedly = m, when one execution of the
\* composed body is over: no more than m passes have succeeded; another pass
\* only starts after a pass that succeeded and was not the m-th; the It is
\* counted as not failed only when m passes have succeeded, and as failed, with
\* the failure of the pass that failed, as soon as one pass has failed, with
\* the passes after it never run.
C12_MustPassRepeatedly ==
    [][AtEnd /\ IsSome(Tree[exec.node].must_pass_repeatedly) =>
        LET n    == exec.node
            m    == Unwrap(Tree[n].must_pass_repeatedly)
            last == LastMark(n)
            run  == FailedRun(last)
            done == Cardinality(Passes(n))
        IN  /\ done <= m
            /\ run = 0 /\ trace' # trace => done < m
            /\ run = 0 /\ exec' = Idle => done = m /\ CountedAs(n, None)
            /\ run = Budget(n) =>
                  /\ exec' = Idle
                  /\ done < m
                  /\ CountedAs(n, Some(PayloadOf(trace[RaisedAt(last)].id)))]_vars

\* "x" (must_pass_repeatedly 2, retries 1) is counted as passed after two
\* passes, the second of which needed its retry.
C12_Witness ==
    /\ reported[7] = <<"passed">>
    /\ Cardinality(Passes(7)) = 2
    /\ Cardinality(Marks(7)) = 3
    /\ FailedAt(CHOOSE i \in Marks(7) : Cardinality({k \in Marks(7) : k < i}) = 1)

\* --------------------------------------------------------------------- C13

\* What the decorated body of n raised, once it is over: nothing when its last
\* execution succeeded, what that execution raised otherwise.
Raised(n) ==
    IF FailedAt(LastMark(n)) THEN Some(PayloadOf(trace[RaisedAt(LastMark(n))].id))
    ELSE None

\* The message of the String "test timed out after {ms}ms", with or without
\* " (original error: {msg})".
TimedOut(n, original) ==
    panic_message([str |-> TRUE, src |-> "test timed out",
                   n |-> Unwrap(Tree[n].timeout_ms), m |-> 0, orig |-> original])

\* C13: for an It with a timeout, every execution of the composed body that is
\* over has called the body, however long it took; and when the It is counted:
\* if the time taken is strictly more than the bound it is counted as failed
\* with the timeout message, which carries the original error when the body
\* failed and none when it succeeded; otherwise it is counted with exactly the
\* outcome of its body.
C13_Timeout ==
    [][AtEnd /\ IsSome(Tree[exec.node].timeout_ms) =>
        LET n  == exec.node
            ms == Unwrap(Tree[n].timeout_ms)
        IN  /\ \A i \in Marks(n) :
                  \/ \E j \in ExecutionAt(i) : trace[j].kind = "body"
                  \/ \E j \in ExecutionAt(i) : trace[j].kind \in Guarded /\ ~trace[j].ok
            /\ exec' = Idle =>
                  IF Elapsed(n) > ms
                  THEN CountedFailed(n, TimedOut(n,
                           IF IsSome(Raised(n))
                           THEN Some(panic_message(Unwrap(Raised(n))))
                           ELSE None))
                  ELSE IF IsSome(Raised(n))
                  THEN CountedFailed(n, panic_message(Unwrap(Raised(n))))
                  ELSE CountedNotFailed(n)]_vars

\* "w" (timeout 1, retries 1) is counted as failed with the timeout message
\* around its body's own message: its body panicked in both attempts, which
\* took longer than the bound.
C13_Witness ==
    /\ reported[5] = <<"failed">>
    /\ Cardinality(Marks(5)) = 2
    /\ Elapsed(5) > 1
    /\ \E i \in DOMAIN result.failures :
          /\ result.failures[i].path = PathOf(5)
          /\ result.failures[i].msg.src = "test timed out"
          /\ IsSome(result.failures[i].msg.orig)
          /\ Unwrap(result.failures[i].msg.orig).src = "body5"

\* --------------------------------------------------------------------- C14

\* C14: for an It with retries = r and a timeout, when one attempt is over: a
\* failed attempt that was not the (r + 1)-th is followed by the next attempt,
\* whatever time has been taken so far; and when the It is counted, it is
\* counted as failed with the timeout message exactly when the time taken by
\* all its attempts together is more than the bound, also when its last attempt
\* succeeded.
C14_TimeoutAroundRetries ==
    [][AtEnd /\ IsSome(Tree[exec.node].retries) /\ IsSome(Tree[exec.node].timeout_ms) =>
        LET n   == exec.node
            r   == Unwrap(Tree[n].retries)
            ms  == Unwrap(Tree[n].timeout_ms)
            run == FailedRun(LastMark(n))
        IN  /\ 0 < run /\ run < r + 1 =>
                  /\ trace' = Append(trace, Event("test_body", "", n, TRUE))
                  /\ exec' # Idle
                  /\ UNCHANGED <<result, reported>>
            /\ exec' = Idle =>
                  (Elapsed(n) > ms <=>
                      /\ reported'[n] = Append(reported[n], "failed")
                      /\ Len(result'.failures) = Len(result.failures) + 1
                      /\ result'.failures[Len(result'.failures)].msg.src = "test timed out")]_vars

\* "w" (retries 1, timeout 1): the first attempt failed and took the whole
\* bound, the retry still ran, took as long and succeeded, and "w" is counted
\* as failed with the timeout message without an original error.
C14_Witness ==
    /\ reported[5] = <<"failed">>
    /\ Cardinality(Marks(5)) = 2
    /\ \A i \in Calls : trace[i].id = "body5" => trace[i].took = 1
    /\ ~FailedAt(LastMark(5))
    /\ \E i \in DOMAIN result.failures :
          /\ result.failures[i].path = PathOf(5)
          /\ result.failures[i].msg.src = "test timed out"
          /\ ~IsSome(result.failures[i].msg.orig)

\* --------------------------------------------------------------------- C15

\* C15: for an It with retries = r and must_pass_repeatedly = m, when one
\* execution of the composed body is over: it has been executed at most
\* m * (r + 1) times; a failed attempt is followed by another attempt of the
\* same pass whenever fewer than r + 1 attempts have failed in a row since the
\* last pass succeeded, whatever the passes before needed; and the It is
\* counted as not failed exactly when m passes have succeeded, and as failed
\* exactly when one pass has used up its r + 1 attempts.
C15_RetriesInsideEachPass ==
    [][AtEnd /\ IsSome(Tree[exec.node].retries)
             /\ IsSome(Tree[exec.node].must_pass_repeatedly) =>
        LET n    == exec.node
            r    == Unwrap(Tree[n].retries)
            m    == Unwrap(Tree[n].must_pass_repeatedly)
            run  == FailedRun(LastMark(n))
            done == Cardinality(Passes(n))
        IN  /\ Cardinality(Marks(n)) <= m * (r + 1)
            /\ 0 < run /\ run < r + 1 =>
                  /\ trace' = Append(trace, Event("test_body", "", n, TRUE))
                  /\ exec' # Idle
            /\ run = 0 /\ done < m =>
                  /\ trace' = Append(trace, Event("test_body", "", n, TRUE))
                  /\ exec' # Idle
            /\ exec' = Idle =>
                  /\ reported'[n] # Append(reported[n], "failed") <=> run = 0 /\ done = m
                  /\ reported'[n] = Append(reported[n], "failed") <=> run = r + 1]_vars

\* "x" (retries 1, must_pass_repeatedly 2) is counted as passed after four
\* executions: each of its two passes failed once and succeeded in its retry.
C15_Witness ==
    /\ reported[7] = <<"passed">>
    /\ Cardinality(Marks(7)) = 4
    /\ Cardinality(Passes(7)) = 2
    /\ ~FailedAt(LastMark(7))

\* --------------------------------------------------------------------- C16

\* The calls of the execution that is just over, in the order they were made.
LastExecution == SubSeq(trace, LastMark(exec.node) + 1, Len(trace))

IsCleanup(e) == e.kind = "cleanup"
IsBody(e) == e.kind = "body"
PanickedIn(e) == ~e.ok

CleanupsRun == SelectSeq(LastExecution, IsCleanup)

\* C16: when an execution of the composed body of an It is over, the cleanups
\* its body deferred have been called in the reverse of the order they were
\* registered in, each exactly once, whichever of them panicked (and none when
\* the body was not called), no cleanup was called besides them and none that
\* was registered is left uncalled; and an It without decorators whose guarded part
\* did not panic while a cleanup did is counted as failed with the message of
\* the first cleanup, in the order they were called, that panicked.
C16_CleanupsLifo ==
    [][AtEnd /\ IsIt(exec) =>
        LET n  == exec.node
            fn == Tree[n].test_fn
            registered == IF SelectSeq(LastExecution, IsBody) # <<>>
                          THEN Defers(fn) ELSE <<>>
            failed == SelectSeq(CleanupsRun, PanickedIn)
        IN  /\ [k \in DOMAIN CleanupsRun |-> CleanupsRun[k].id] = Reverse(registered)
            /\ CLEANUP_STACK = <<>>
            /\ /\ exec' = Idle
               /\ Tree[n].retries = None
               /\ Tree[n].must_pass_repeatedly = None
               /\ Tree[n].timeout_ms = None
               /\ ~\E k \in DOMAIN LastExecution :
                       LastExecution[k].kind \in Guarded /\ ~LastExecution[k].ok
               /\ failed # <<>>
               => CountedFailed(n, panic_message(PayloadOf(failed[1].id)))]_vars

\* --------------------------------------------------------------------- C17

\* C17: when an It without decorators is counted after its body panicked and
\* one of its deferred cleanups panicked as well, the failure recorded for it
\* carries the message of the body.
C17_BodyFailureWins ==
    [][/\ AtEnd /\ IsIt(exec)
       /\ exec' = Idle
       /\ Tree[exec.node].retries = None
       /\ Tree[exec.node].must_pass_repeatedly = None
       /\ Tree[exec.node].timeout_ms = None
       /\ SelectSeq(SelectSeq(LastExecution, IsBody), PanickedIn) # <<>>
       /\ SelectSeq(CleanupsRun, PanickedIn) # <<>>
       => CountedFailed(exec.node,
                        panic_message(PayloadOf(Tree[exec.node].test_fn)))]_vars

\* --------------------------------------------------------------------- C18

\* The body of leaf n has called skip().
SkipCalledIn(n) == \E i \in Calls : trace[i].node = n /\ trace[i].skip

\* C18: when an It is counted: if its decorated body failed, it is counted as
\* failed, and neither as skipped nor as passed, whether or not its body called
\* skip(); if its decorated body succeeded and its body called skip(), it is
\* counted as skipped and not as passed.
C18_SkipOutcome ==
    [][AtEnd /\ IsIt(exec) /\ exec' = Idle =>
        LET n == exec.node
        IN  IF IsSome(Outcome(n, Elapsed(n), Raised(n)))
            THEN /\ reported'[n] = Append(reported[n], "failed")
                 /\ result'.failed = result.failed + 1
                 /\ result'.skipped = result.skipped
                 /\ result'.passed = result.passed
            ELSE SkipCalledIn(n) =>
                 /\ reported'[n] = Append(reported[n], "skipped")
                 /\ result' = [result EXCEPT !.skipped = @ + 1]]_vars

\* "x" called skip() in a body that returned and is counted as skipped; "y"
\* called skip() in a body that panicked and is counted as failed.
C18_Witness ==
    /\ reported[7] = <<"skipped">>
    /\ \E i \in Calls : trace[i].id = "body7" /\ trace[i].skip /\ trace[i].ok
    /\ \A i \in Calls : trace[i].node = 7 => trace[i].ok
    /\ reported[3] = <<"failed">>
    /\ \E i \in Calls : trace[i].id = "body3" /\ trace[i].skip /\ ~trace[i].ok
    /\ result.skipped = 1 /\ result.failed = 1 /\ result.passed = 0

\* --------------------------------------------------------------------- C19

\* C19: an It that has been executed is counted as skipped only if skip() was
\* called during its own execution.
C19_SkipNeverLeaks ==
    [][/\ AtEnd /\ IsIt(exec)
       /\ exec' = Idle
       /\ reported'[exec.node] = Append(reported[exec.node], "skipped")
       => SkipCalledIn(exec.node)]_vars

\* --------------------------------------------------------------------- C20

\* The term holds for the labels: "x" when x is one of them, "!x" when x is not.
TermHolds(t, labels) ==
    IF t.neg THEN \A i \in DOMAIN labels : labels[i] # t.name
    ELSE \E i \in DOMAIN labels : labels[i] = t.name

\* C20: for a filter with '+' and without ',', labels_match_filter returns
\* true exactly when every one of the terms between the '+' holds for the
\* labels, blanks around a term not being part of it.
C20_AndFilter ==
    /\ call.state = "returned"
    /\ Len(call.terms) > 1
    /\ \A i \in DOMAIN call.seps : call.seps[i] = "+"
    => /\ FilterOf(call) = FilterText(call.terms, call.padded)
       /\ call.result <=> \A i \in DOMAIN call.terms : TermHolds(call.terms[i], call.labels)

\* "a+!ab" has been matched against the labels a and b, and accepted them.
C20_Witness ==
    /\ call.state = "returned"
    /\ call.labels = << <<"a">>, <<"b">> >>
    /\ FilterOf(call) = <<"a", "+", "!", "a", "b">>
    /\ call.result

\* --------------------------------------------------------------------- C21

\* C21: for a filter without '+', labels_match_filter returns false when a
\* negated term names one of the labels, whatever the positive terms; and
\* otherwise true exactly when the filter has no positive term or one of its
\* positive terms names one of the labels.
C21_OrFilter ==
    /\ call.state = "returned"
    /\ \A i \in DOMAIN call.seps : call.seps[i] = ","
    => LET named(t) == \E i \in DOMAIN call.labels : call.labels[i] = t.name
           T == {call.terms[i] : i \in DOMAIN call.terms}
       IN  /\ ~Contains(FilterOf(call), <<"+">>)
           /\ call.result <=>
                 /\ ~\E t \in T : t.neg /\ named(t)
                 /\ \/ ~\E t \in T : ~t.neg
                    \/ \E t \in T : ~t.neg /\ named(t)

\* "!a,!b" has been matched against no labels at all, and accepted them.
C21_Witness ==
    /\ call.state = "returned"
    /\ call.labels = <<>>
    /\ FilterOf(call) = <<"!", "a", ",", "!", "b">>
    /\ call.result

\* --------------------------------------------------------------------- C22

\* The filter of the call has a '+' and a ','.
Mixed == /\ \E i \in DOMAIN call.seps : call.seps[i] = "+"
         /\ \E i \in DOMAIN call.seps : call.seps[i] = ","

\* C22: for a filter with both '+' and ',', labels_match_filter returns, and
\* returns false, whatever the labels; the leaf is not run and run_node
\* returns, with nothing of the run changed.
C22_MixedFilterRejected ==
    Mixed /\ call.state # "called" =>
        /\ Contains(FilterOf(call), <<"+">>) /\ Contains(FilterOf(call), <<",">>)
        /\ ~call.result
        /\ call.state \in {"returned", "return"}
        /\ pc = "start" /\ result = RunResultDefault /\ trace = <<>>

\* "a,a+b" has been matched against the labels a and b, every term of it
\* among them, and run_node has returned without running the leaf.
C22_Witness ==
    /\ call.state = "return"
    /\ call.labels = << <<"a">>, <<"b">> >>
    /\ FilterOf(call) = <<"a", ",", "a", "+", "b">>
    /\ ~call.result

\* --------------------------------------------------------------------- C23

IsStep(e) == e.kind = "step"
IsAfterEach(e) == e.kind = "after_each"

Ids(events) == [k \in DOMAIN events |-> events[k].id]

\* The cleanups the closures defer, one closure after the other.
RECURSIVE DeferredBy(_)
DeferredBy(closures) ==
    IF closures = <<>> THEN <<>>
    ELSE Defers(closures[1]) \o DeferredBy(Tail(closures))

\* The steps called in the execution that is just over, in the order of the calls.
StepsRun == SelectSeq(LastExecution, IsStep)

IsOrdered(e) == Tree[e.node].kind = "Ordered"

\* C23: when the execution of an Ordered without continue_on_failure is over:
\* the steps called are the first ones of its declaration, in that order, up
\* to the first that panicked, which is the last one called; and if a step
\* panicked, the after_each hooks of the chain have all been called after it
\* and after them the cleanups the steps deferred (c3, next to whatever an
\* earlier leaf left on the stack), and the Ordered is then counted once, as
\* one failure, with the message of that step unless a cleanup panicked.
C23_OrderedAbortsAtFirstFailure ==
    [][AtEnd /\ IsOrdered(exec) /\ ~Tree[exec.node].continue_on_failure =>
        LET n     == exec.node
            steps == Tree[n].steps
            run   == StepsRun
            OfSteps(e) == e.id \in SeqToSet(DeferredBy(Ids(run)))
        IN  /\ Len(run) <= Len(steps)
            /\ Ids(run) = SubSeq(steps, 1, Len(run))
            /\ \A k \in DOMAIN run : ~run[k].ok => k = Len(run)
            /\ \A k \in DOMAIN run : run[k].ok /\ k < Len(steps) => k < Len(run)
            /\ run # <<>> /\ ~run[Len(run)].ok =>
                  /\ \E k \in DOMAIN LastExecution :
                        /\ LastExecution[k] = run[Len(run)]
                        /\ Ids(SelectSeq(SubSeq(LastExecution, k + 1, Len(LastExecution)),
                                         IsAfterEach))
                              = Reverse(ChainAfterEach(n))
                  /\ Ids(SelectSeq(CleanupsRun, OfSteps)) = Reverse(DeferredBy(Ids(run)))
                  /\ \A i, j \in DOMAIN LastExecution :
                        IsAfterEach(LastExecution[i]) /\ IsCleanup(LastExecution[j])
                        => i < j
                  /\ exec' = Idle
                  /\ CountedFailed(n, panic_message(PayloadOf(
                        IF SelectSeq(CleanupsRun, PanickedIn) # <<>>
                        THEN SelectSeq(CleanupsRun, PanickedIn)[1].id
                        ELSE run[Len(run)].id)))
                  /\ result'.passed = result.passed
                  /\ result'.skipped = result.skipped
                  /\ result'.pending = result.pending]_vars

\* The run is over: step s1 of "z" panicked, s2 was never called, the
\* after_each hook ae1 was called for "z" and panicked as well, the cleanup
\* s1 had deferred was called, and "z" is the one failure of the run, with the
\* message of s1.
C23_Witness ==
    /\ pc = "done"
    /\ \E i \in Panics : trace[i].id = "s1"
    /\ CallsOf("s2") = 0
    /\ \E i \in Panics : trace[i].id = "ae1" /\ trace[i].node = 4
    /\ CallsOf("c3") = 1
    /\ reported[4] = <<"failed">>
    /\ result.failed = 1
    /\ Len(result.failures) = 1
    /\ result.failures[1].msg.src = "s1"

\* --------------------------------------------------------------------- C24

\* C24: when the execution of an Ordered with continue_on_failure is over and
\* no hook before the steps panicked: every step has been called, once and in
\* the order of the declaration, whichever of them panicked; and the Ordered
\* is then counted once: as passed when nothing panicked, and when N > 0 of its
\* M steps panicked as one failure whose message says that N of M ordered
\* steps failed.
C24_OrderedContinuesOnFailure ==
    [][/\ AtEnd /\ IsOrdered(exec) /\ Tree[exec.node].continue_on_failure
       /\ \A k \in DOMAIN LastExecution :
             LastExecution[k].kind \in {"before_each", "just_before_each"}
             => LastExecution[k].ok
       =>
        LET n == exec.node
            N == Len(SelectSeq(StepsRun, PanickedIn))
            M == Len(Tree[n].steps)
        IN  /\ Ids(StepsRun) = Tree[n].steps
            /\ exec' = Idle
            /\ N = 0 /\ SelectSeq(LastExecution, PanickedIn) = <<>> =>
                  /\ result' = [result EXCEPT !.passed = @ + 1]
                  /\ reported'[n] = Append(reported[n], "passed")
            /\ N > 0 /\ SelectSeq(CleanupsRun, PanickedIn) = <<>> =>
                  /\ result'.failed = result.failed + 1
                  /\ result'.passed = result.passed
                  /\ reported'[n] = Append(reported[n], "failed")
                  /\ Len(result'.failures) = Len(result.failures) + 1
                  /\ LET f == result'.failures[Len(result'.failures)]
                     IN  /\ f.path = PathOf(n)
                         /\ f.msg.src = "ordered steps failed"
                         /\ f.msg.n = N
                         /\ f.msg.m = M]_vars

\* "v" has two steps: s3 panicked, s4 was called all the same and returned,
\* and "v" is counted as one failure that says 1 of 2 ordered steps failed.
C24_Witness ==
    /\ \E i \in Panics : trace[i].id = "s3"
    /\ \E i \in Calls : trace[i].id = "s4" /\ trace[i].ok
    /\ reported[6] = <<"failed">>
    /\ \E i \in DOMAIN result.failures :
          /\ result.failures[i].path = PathOf(6)
          /\ result.failures[i].msg.src = "ordered steps failed"
          /\ result.failures[i].msg.n = 1
          /\ result.failures[i].msg.m = 2
    /\ Cardinality({i \in DOMAIN result.failures : result.failures[i].path = PathOf(6)}) = 1


\* ------------------------------------------------------------------ C27
\* C27: when RSSPEC_FAIL_ON_FOCUS is set and some node of the run is focused,
\* a run that is no listing never returns (check_fail_on_focus panics, and
\* nothing in the runner catches the panic) and no body of an It and no step
\* of an Ordered is ever called.
C27_FailOnFocusAborts ==
    FailOnFocusSet(env.RSSPEC_FAIL_ON_FOCUS) /\ focused # {} /\ ~config.list
        => /\ pc # "done"
           /\ \A i \in Calls : ~IsBody(trace[i]) /\ ~IsStep(trace[i])


C29_FilteredLeafIsSilent ==
    \A n \in Leaves :
        PathRejects(n) => ~RanFor(n) /\ reported[n] = <<>>


\* ------------------------------------------------------------------ C30
\* C30: with config.list nothing is ever called (no before_all, after_all,
\* before_each, just_before_each or after_each hook, no body, step or
\* cleanup), no leaf is counted, and the run result keeps its four counters
\* at zero and its failure list empty up to and including the return.
C30_ListOnly ==
    config.list =>
        /\ trace = <<>>
        /\ exec = Idle
        /\ CLEANUP_STACK = <<>>
        /\ \A n \in Leaves : reported[n] = <<>>
        /\ result = RunResultDefault
        /\ pc \in {"start", "done"}

\* A listing has returned for a tree with a focused node and
\* RSSPEC_FAIL_ON_FOCUS set.
C30_Witness ==
    /\ config.list
    /\ pc = "done"
    /\ focus_mode
    /\ FailOnFocusSet(env.RSSPEC_FAIL_ON_FOCUS)
    /\ Total = 0


\* ------------------------------------------------------------------ C31

HookKinds == {"before_all", "after_all", "before_each", "after_each"}

\* The note that names the kind of hook.
NoteOf(kind) ==
    CASE kind = "before_all"  -> "(before_all)"
      [] kind = "after_all"   -> "(after_all)"
      [] kind = "before_each" -> "(before_each)"
      [] kind = "after_each"  -> "(after_each)"

\* C31: when the run returns, every panic of a before_all, after_all,
\* before_each or after_each hook has an entry in the failure list, for the
\* path of the node the hook was called for, with the note that names the kind
\* of hook, and failed counts it.
C31_HookFailureCarriesNote ==
    pc = "done" =>
        \A i \in Calls :
            trace[i].kind \in HookKinds /\ ~trace[i].ok =>
                /\ FailureEntries(trace[i].node, NoteOf(trace[i].kind)) # {}
                /\ result.failed > 0


\* ------------------------------------------------------------------ C32

EachKinds == {"before_each", "just_before_each", "after_each"}

\* C32: for an It with retries, a before_each, just_before_each or after_each
\* hook that panicked is never called again for that It.
C32_HooksNeverRetry ==
    \A i \in Calls :
        /\ trace[i].kind \in EachKinds
        /\ ~trace[i].ok
        /\ IsSome(Tree[trace[i].node].retries)
        => \A j \in Calls :
              j > i /\ trace[j].node = trace[i].node => trace[j].id # trace[i].id


\* ------------------------------------------------------------------ C33

\* The nodes of the s-th suite.
InSuite(s) ==
    SeqToSet(Suites[s].nodes) \cup UNION {Below(g) : g \in SeqToSet(Suites[s].nodes)}

\* C33: once run_suites has looked at the suites, focus_mode is true exactly
\* when an It or Describe of any suite is focused (an Ordered has no flag to
\* contribute), and it is the same for every suite of the run: when the run
\* returns with some node focused and include_ignored off, nothing was called
\* for the leaves of a suite that holds no focused node, and each of them that
\* the traversal came to, that the path filter accepts and that is not
\* pending was counted as skipped.
C33_FocusModeIsRunWide ==
    /\ pc # "start" =>
          focus_mode = (\E n \in focused : Tree[n].kind \in {"It", "Describe"})
    /\ pc = "done" /\ focused # {} /\ ~config.include_ignored =>
          \A s \in DOMAIN Suites :
              focused \cap InSuite(s) = {} =>
                  \A n \in InSuite(s) \cap Leaves :
                      /\ ~RanFor(n)
                      /\ Reached(n) /\ ~PathRejects(n) /\ ~PendingByTree(n)
                            => reported[n] = <<"skipped">>

\* The only focused node is the It "w" of the second suite: the leaves of
\* the first suite were skipped and "w" ran.
C33_Witness ==
    /\ pc = "done"
    /\ focused = {5}
    /\ \A n \in {3, 4, 7} : reported[n] = <<"skipped">>
    /\ reported[6] = <<"skipped">>
    /\ RanFor(5)


\* ------------------------------------------------------------------ C39
\* C39: whenever no It or Ordered is being executed, and whenever an
\* execution of a composed body is over, CLEANUP_STACK is empty: no cleanup
\* registered during a leaf is left for a later one.
C39_NoCleanupOutlivesItsLeaf ==
    exec = Idle \/ AtEnd => CLEANUP_STACK = <<>>


\* ------------------------------------------------------------------ C34

\* The nodes in the order of their declaration: a Describe, then its children.
RECURSIVE Walk(_)
Walk(nodes) ==
    IF nodes = <<>> THEN <<>>
    ELSE <<Head(nodes)>> \o Walk(Tree[Head(nodes)].children) \o Walk(Tail(nodes))

RECURSIVE WalkSuites(_)
WalkSuites(s) ==
    IF s > Len(Suites) THEN <<>> ELSE Walk(Suites[s].nodes) \o WalkSuites(s + 1)

DeclarationOrder == WalkSuites(1)

Position == [n \in Nodes |-> CHOOSE k \in DOMAIN DeclarationOrder : DeclarationOrder[k] = n]

\* The cleanups registered during the leaf n: by its body or steps, and by
\* those cleanups.
RegisteredDuring ==
    [n \in Leaves |->
        LET first == SeqToSet(DeferredBy(IF Tree[n].kind = "It" THEN <<Tree[n].test_fn>>
                                         ELSE Tree[n].steps))
        IN  first \cup UNION {SeqToSet(Defers(c)) : c \in first}]

\* The node the call at i belongs to: for a cleanup the leaf it was
\* registered in, else the node it was called for.
OwnerOf(i) ==
    IF trace[i].kind = "cleanup"
    THEN CHOOSE n \in Leaves : trace[i].id \in RegisteredDuring[n]
    ELSE trace[i].node

\* y does not come before x in the walk: they are the same node, one lies in
\* the subtree of the other, or x is in the subtree of an earlier sibling.
InWalkOrder(x, y) ==
    x = y \/ x \in Above(y) \/ y \in Above(x) \/ Position[x] < Position[y]

\* The node a failure entry is for.
NodeOfEntry(e) == CHOOSE n \in Nodes : PathOf(n) = e.path

\* C34: the calls are made in the order of the walk: once a hook, body, step
\* or cleanup of a node has been called, nothing that belongs to the subtree
\* of an earlier sibling (its hooks, bodies, steps, the cleanups registered in
\* it, its after_all hooks) is called any more; and the failure entries of the
\* run result are in that order.
C34_DepthFirstInDeclarationOrder ==
    /\ \A i, j \in Calls : i < j => InWalkOrder(OwnerOf(i), OwnerOf(j))
    /\ \A k, l \in DOMAIN result.failures :
          k < l => InWalkOrder(NodeOfEntry(result.failures[k]),
                               NodeOfEntry(result.failures[l]))


\* ------------------------------------------------------------------ C35
\* C35: the hook chain run_node is handed for a leaf, and the one its
\* execution uses, hold exactly the before_each, just_before_each and
\* after_each hooks and the labels of the Describes above the leaf, outermost
\* first; the labels of its label check are those followed by its own; and
\* every such hook called for a leaf is one of a Describe above it, never one
\* of a sibling Describe or of a Describe further down.
C35_ChainOfAncestorsOnly ==
    /\ AtLeaf =>
          /\ Top.hooks = Inherited[Cur]
          /\ all_labels(Top, Cur) = ChainLabels(Cur) \o Tree[Cur].labels
    /\ exec # Idle => exec.hooks = Inherited[exec.node]
    /\ \A i \in Calls :
          trace[i].kind \in EachKinds =>
              \E g \in Above(trace[i].node) :
                  trace[i].id \in SeqToSet(Tree[g][trace[i].kind])

\* The Ordered "z" is executed after the It "y" of its sibling Describe "c"
\* was: be3, jb2 and ae2 were called for "y", and for "z" the hooks of "Ab"
\* alone.
C35_Witness ==
    /\ AtEnd
    /\ exec.node = 4
    /\ \A h \in {"be3", "jb2", "ae2"} :
          \E i \in Calls : trace[i].id = h /\ trace[i].node = 3
    /\ \A h \in {"be1", "be2", "jb1", "ae1"} :
          \E i \in Calls : trace[i].id = h /\ trace[i].node = 4

\* ---- C36: the builder mirrors the nesting of the declarations ----

\* The groups opened and not closed by a sequence of builder operations.
OpenGroups(ops) ==
    Len(SelectSeq(ops, LAMBDA o : o.op = "push_group"))
    - Len(SelectSeq(ops, LAMBDA o : o.op = "pop_group"))

\* No prefix of the operations closes a group that was not opened.
Balanced(ops) == \A k \in 0..Len(ops) : OpenGroups(SubSeq(ops, 1, k)) >= 0

\* The pop_group that closes the group opened at position j, 0 if none does.
Closing(ops, j) ==
    LET closes == {m \in j..Len(ops) : OpenGroups(SubSeq(ops, j, m)) = 0}
    IN  IF closes = {} THEN 0 ELSE CHOOSE m \in closes : \A k \in closes : m <= k

\* The operations op of positions lo..hi issued in the scope that is open at
\* lo, outside every group opened from lo on: their numbers, in order.
DirectlyIn(ops, lo, hi, op) ==
    LET at(k) == lo + k - 1
        positions == [k \in 1..(hi - lo + 1) |-> at(k)]
        direct(k) == /\ ops[k].op = op
                     /\ OpenGroups(SubSeq(ops, lo, k - 1)) = 0
    IN  [k \in 1..Len(SelectSeq(positions, direct)) |->
            ops[SelectSeq(positions, direct)[k]].id]

\* The labels a scope ends with: those of its last set_labels.
LabelsIn(ops, lo, hi) ==
    LET set == DirectlyIn(ops, lo, hi, "set_labels")
    IN  IF set = <<>> THEN <<>> ELSE <<set[Len(set)]>>

\* The nodes declared by positions lo..hi in the scope open at lo: a leaf per
\* add_node, a Group per closed push_group with what was declared inside it.
RECURSIVE DeclaredNodes(_, _, _)
DeclaredNodes(ops, lo, hi) ==
    IF lo > hi THEN <<>>
    ELSE IF ops[lo].op = "add_node"
         THEN <<Leaf(ops[lo].id)>> \o DeclaredNodes(ops, lo + 1, hi)
    ELSE IF ops[lo].op = "push_group"
         THEN LET m == Closing(ops, lo)
              IN  IF m = 0 \/ m > hi THEN <<>>
                  ELSE <<[kind |-> "Describe", name |-> ops[lo].id,
                          labels |-> LabelsIn(ops, lo + 1, m - 1),
                          before_each |-> DirectlyIn(ops, lo + 1, m - 1, "add_before_each"),
                          children |-> DeclaredNodes(ops, lo + 1, m - 1)]>>
                       \o DeclaredNodes(ops, m + 1, hi)
    ELSE DeclaredNodes(ops, lo + 1, hi)

\* The positions of the push_groups still open, outermost first.
StillOpen(ops) ==
    SelectSeq([k \in 1..Len(ops) |-> k],
              LAMBDA k : ops[k].op = "push_group" /\ Closing(ops, k) = 0)

\* The frame the d-th open scope must be: the root for d = 1.
FrameOf(ops, d) ==
    LET lo == IF d = 1 THEN 1 ELSE StillOpen(ops)[d - 1] + 1
    IN  [kind |-> "Describe",
         name |-> IF d = 1 THEN <<>> ELSE ops[lo - 1].id,
         labels |-> LabelsIn(ops, lo, Len(ops)),
         before_each |-> DirectlyIn(ops, lo, Len(ops), "add_before_each"),
         children |-> DeclaredNodes(ops, lo, Len(ops))]

\* C36: for every balanced sequence of builder operations the stack is one
\* deeper than the number of open groups, every frame holds exactly the
\* hooks, labels and children declared while it was the top, in declaration
\* order and with the labels of the last set_labels of the scope, every
\* closed group is a child of the scope it was opened in, and the tree that
\* run() hands to phase 2 is the nesting of the declarations.
C36_BuilderMirrorsNesting ==
    \A t \in Threads :
        LET ops == build.log[t]
        IN  /\ build.phase[t] = "building" /\ Balanced(ops) =>
                /\ build.BUILDER[t] # None
                /\ Len(Unwrap(build.BUILDER[t])) = 1 + OpenGroups(ops)
                /\ \A d \in 1..Len(Unwrap(build.BUILDER[t])) :
                      Unwrap(build.BUILDER[t])[d] = FrameOf(ops, d)
            /\ build.handed[t] # None =>
                /\ Balanced(ops)
                /\ OpenGroups(ops) = 0
                /\ build.handed[t] = Some(DeclaredNodes(ops, 1, Len(ops)))

\* A group with two set_labels and a leaf is handed to phase 2, with the
\* labels of the second set_labels.
C36_Witness ==
    \E t \in Threads :
        /\ build.handed[t] # None
        /\ Len(build.log[t]) = 5
        /\ \E g \in SeqToSet(Unwrap(build.handed[t])) :
              /\ g.kind = "Describe"
              /\ Len(g.children) = 1
              /\ Len(DirectlyIn(build.log[t], 2, 4, "set_labels")) = 2
              /\ \E k \in 3..4 : /\ build.log[t][k].op = "set_labels"
                                 /\ g.labels = << <<t, k>> >>

\* ---- C38: the failure list and the failed counter move together ----

\* C38: in every reachable state the failure list is as long as the failed
\* counter says, and a step that changes either of them adds one to the
\* counter and appends exactly one description to the list.
C38_FailuresMatchFailed ==
    /\ [](Len(result.failures) = result.failed)
    /\ [][\/ /\ result'.failed = result.failed
             /\ result'.failures = result.failures
          \/ /\ result'.failed = result.failed + 1
             /\ Len(result'.failures) = Len(result.failures) + 1
             /\ SubSeq(result'.failures, 1, Len(result.failures)) = result.failures]_vars

\* The run has counted a failed before_all, a failed after_all and a failed
\* leaf.
C38_Witness ==
    /\ result.failed >= 3
    /\ \E i, j, k \in DOMAIN result.failures :
          /\ result.failures[i].note = "(before_all)"
          /\ result.failures[j].note = "(after_all)"
          /\ result.failures[k].note = ""

\* ---- C40: a Case counted as passed has run its body ----

\* C40: a Case that is counted as passed has called its composed body at
\* least once and the call returned, and with_retries has not returned
\* without a call of the body that returned, for every value of retries and
\* must_pass_repeatedly.
C40_PassedOnlyAfterSuccess ==
    /\ call.counted = Some("passed") => call.completed >= 1
    /\ ~call.hollow

\* ---- C37: the thread-locals are per thread ----

\* The nodes of a sequence of nodes and below them.
RECURSIVE NodesIn(_)
NodesIn(nodes) ==
    UNION {{nodes[i]} \cup NodesIn(nodes[i].children) : i \in 1..Len(nodes)}

\* What thread t declared is named <<t, number>>.
DeclaredBy(t, node) ==
    /\ node.name[1] = t
    /\ \A i \in 1..Len(node.before_each) : node.before_each[i][1] = t
    /\ \A i \in 1..Len(node.labels) : node.labels[i][1] = t

\* C37: with runs on two threads under any interleaving, the cleanups a
\* thread holds and the cleanups it runs at the end of a case are those the
\* thread itself deferred; a case is counted as skipped exactly when the
\* thread running it called skip() during the case, with its own reason; and
\* every node, hook and label of the tree a thread is building or has handed
\* to its runner was declared by an operation of that thread.
C37_ThreadLocalsArePerThread ==
    \A t \in Threads :
        /\ \A i \in 1..Len(build.CLEANUP_STACK[t]) : build.CLEANUP_STACK[t][i] = t
        /\ \A i \in 1..Len(build.case[t].ran) : build.case[t].ran[i] = t
        /\ build.asked[t] <=> build.SKIP_REASON[t] = Some(t)
        /\ build.case[t].outcome = "skipped" <=> build.case[t].asked
        /\ build.case[t].outcome = "skipped" => build.case[t].reason = Some(t)
        /\ build.BUILDER[t] # None =>
              \A d \in 1..Len(Unwrap(build.BUILDER[t])) :
                 \A node \in NodesIn(Unwrap(build.BUILDER[t])[d].children)
                             \cup (IF d = 1 THEN {} ELSE {Unwrap(build.BUILDER[t])[d]}) :
                    DeclaredBy(t, node)
        /\ build.handed[t] # None =>
              \A node \in NodesIn(Unwrap(build.handed[t])) : DeclaredBy(t, node)

\* Both threads execute their trees at once: thread 1 ended a case that ran
\* the cleanup it deferred and passed, while thread 2 has called skip() in a
\* case that has not ended.
C37_Witness ==
    /\ build.phase = [t \in Threads |-> "executing"]
    /\ build.case[1].ran = <<1>>
    /\ build.case[1].outcome = "passed"
    /\ build.SKIP_REASON[2] = Some(2)
    /\ build.case[2] = NoCase

====
